---- MODULE Spec2Model ----
(***************************************************************************)
(* Media Studio (side-quests/media-studio): the canvas video processor,    *)
(* the video recording handler that uses it, and the IndexedDB gallery;    *)
(* the capture countdown, the video and audio recording controls with the  *)
(* audio meter and the recording timers, repeated clicks on the Stop       *)
(* buttons, recordings through the processor, overlapping startPreview     *)
(* calls, and the functions setAspect, pickMimeType, capturePhoto,         *)
(* AudioMeter.getLevel, getOutputDimensions and the frame rate given to    *)
(* captureStream.                                                          *)
(*                                                                         *)
(* JavaScript numbers in calculateCropResize, getOutputDimensions and the  *)
(* frame rate are modelled as exact rationals (records [n, d], d > 0, in   *)
(* lowest terms); IEEE-754 rounding of the divisions is not modelled.      *)
(***************************************************************************)
EXTENDS Integers, Sequences, FiniteSets, TLC

VARIABLES
    geomIn,     \* arguments of the calculateCropResize call under study
    geomOut,    \* its return value, NoResult before the call
    proc,       \* VideoProcessor objects: the fields set by the constructor
    call,       \* per processor, its latest startProcessing call (an async function)
    raf,        \* per processor, the requestAnimationFrame callbacks still pending
    ended,      \* MediaStreamTracks on which stop() was called
    previewStream,      \* ui: let previewStream (Null or a stream)
    processedStream,    \* ui: let processedStream
    videoProcessor,     \* ui: let videoProcessor (0 for null, or a processor)
    nextProc,           \* number of VideoProcessor objects constructed so far
    videoRecorderCtl,   \* ui: let videoRecorderCtl (0 for null, or a recorder)
    recorders,          \* the MediaRecorders created by createRecorder, in order; saves
                        \* (history) counts the gallery items made from a recorder's blob
    aspectSel,          \* value of the #aspectSelect element
    ui,                 \* visibility of the Start/Stop Video buttons and of the timer
    sh,                 \* the invocations of startVideoRecording and where each stands
    statusText,         \* text of the #status element
    store,              \* the 'gallery' object store of MediaStudioDB: a set of items
    gallery,            \* the children of the #gallery element, first child first
    pending,            \* storage calls whose promise is still pending, oldest first
    lastLoad,           \* what loadGalleryItems returned, if the latest step settled one
    storageStats,       \* what #storageStats shows
    live,               \* history: the saves that resolved and were not deleted since
    timerSelect,        \* value of the #timerSelect element, in seconds
    countdownBadge,     \* the #countdownBadge element: its 'hidden' class and its text
    clicks,             \* the clicks on Photo / Start Video / Start Audio and where each stands
    audioRecorderCtl,   \* ui: let audioRecorderCtl (0 for null, or a recorder)
    audioMeter,         \* ui: let audioMeter (Null or an AudioMeter object)
    meteringHidden,     \* the 'hidden' class of the #meteringContainer element
    audioUi,            \* visibility of the Start/Stop Audio buttons, and the audio timer
    ah,                 \* the invocations of startAudioRecording and where each stands
    stopping,           \* the running invocations of stopVideoRecording / stopAudioRecording
    ph,                 \* the invocations of startPreview and where each stands
    args,               \* arguments of the call under study of setAspect, pickMimeType,
                        \* capturePhoto or getLevel (Null outside their specifications)
    result              \* what that call returned or did, NoResult before the call

geomVars == <<geomIn, geomOut>>
procVars == <<proc, call, raf, ended>>
recVars == <<previewStream, processedStream, videoProcessor, nextProc,
             videoRecorderCtl, recorders, aspectSel, ui, sh>>
galVars == <<store, gallery, pending, lastLoad, storageStats, live>>
countVars == <<timerSelect, countdownBadge, clicks>>
\* the parts of the page that only their own specification moves
studioVars == <<audioRecorderCtl, audioMeter, meteringHidden, audioUi, ah, stopping>>
fnVars == <<args, result>>
prevVars == <<ph>>
pageVars == <<countVars, studioVars, fnVars, prevVars>>
vars == <<geomIn, geomOut, proc, call, raf, ended,
          previewStream, processedStream, videoProcessor, nextProc,
          videoRecorderCtl, recorders, aspectSel, ui, sh, statusText,
          store, gallery, pending, lastLoad, storageStats, live,
          timerSelect, countdownBadge, clicks,
          audioRecorderCtl, audioMeter, meteringHidden, audioUi, ah, stopping,
          ph, args, result>>
\* what a step of a VideoProcessor leaves alone
nonProcVars == <<geomVars, pageVars, recVars, statusText, galVars>>

NoResult == [none |-> TRUE]
\* JavaScript null
Null == [null |-> TRUE]

-----------------------------------------------------------------------------
(* Bounds *)

\* frame and canvas sizes range over 1..MaxDim
MaxDim == 4
\* VideoProcessor objects that can be constructed
MaxProcs == 2
\* analyser.frequencyBinCount: the length of the AudioMeter's dataArray
BinCount == 2
\* the longest countdown #timerSelect offers, in seconds
MaxCountdown == 2
\* clicks on the Photo / Start Video / Start Audio buttons
MaxClicks == 2
\* audio tracks an input stream can hold
MaxAudio == 1
\* startProcessing calls made on one processor
MaxCalls == 2
\* invocations of startVideoRecording
MaxStarts == 2
\* invocations of a stop handler that can be running at once
MaxStops == 2
\* invocations of startPreview
MaxPreviews == 3
\* MediaRecorders that can be created
MaxRecs == 2
\* Date.now() ranges over 1..MaxTime
MaxTime == 2
\* items the store can hold
MaxItems == 2
\* storage calls that can be pending at once
MaxPending == 2

-----------------------------------------------------------------------------
(* Exact rational arithmetic for JavaScript's / * - on numbers *)

Abs(i) == IF i < 0 THEN -i ELSE i

RECURSIVE Gcd(_, _)
Gcd(a, b) == IF b = 0 THEN a ELSE Gcd(b, a % b)

\* n/d in lowest terms with a positive denominator (d /= 0)
Rat(n, d) ==
    LET g == Gcd(Abs(n), Abs(d))
        s == IF d < 0 THEN -1 ELSE 1
    IN  [n |-> (s * n) \div g, d |-> (s * d) \div g]

RInt(i) == [n |-> i, d |-> 1]
RDiv(a, b) == Rat(a.n * b.d, a.d * b.n)
RMul(a, b) == Rat(a.n * b.n, a.d * b.d)
RSub(a, b) == Rat(a.n * b.d - b.n * a.d, a.d * b.d)
RAdd(a, b) == Rat(a.n * b.d + b.n * a.d, a.d * b.d)
RLt(a, b) == a.n * b.d < b.n * a.d
RLe(a, b) == a.n * b.d <= b.n * a.d

-----------------------------------------------------------------------------
(* VideoProcessor.calculateCropResize *)

FitModes == {"contain", "cover", "fill", "none", "scale-down"}

\* mutant: 'cover' crops the wrong dimension (comparison reversed)
CropResizeCoverReversed(inputW, inputH, outputW, outputH, fitMode) ==
    LET inputAspect == RDiv(RInt(inputW), RInt(inputH))
        outputAspect == RDiv(RInt(outputW), RInt(outputH))
        full == [srcX |-> RInt(0), srcY |-> RInt(0),
                 srcW |-> RInt(inputW), srcH |-> RInt(inputH),
                 destX |-> RInt(0), destY |-> RInt(0),
                 destW |-> RInt(outputW), destH |-> RInt(outputH)]
    IN  CASE fitMode = "contain" ->
               IF RLt(outputAspect, inputAspect)
               THEN LET destH == RDiv(RInt(outputW), inputAspect)
                    IN  [full EXCEPT !.destH = destH,
                                     !.destY = RDiv(RSub(RInt(outputH), destH), RInt(2))]
               ELSE LET destW == RMul(RInt(outputH), inputAspect)
                    IN  [full EXCEPT !.destW = destW,
                                     !.destX = RDiv(RSub(RInt(outputW), destW), RInt(2))]
          [] fitMode = "cover" ->
               IF RLt(inputAspect, outputAspect)
               THEN LET srcW == RMul(RInt(inputH), outputAspect)
                    IN  [full EXCEPT !.srcW = srcW,
                                     !.srcX = RDiv(RSub(RInt(inputW), srcW), RInt(2))]
               ELSE LET srcH == RDiv(RInt(inputW), outputAspect)
                    IN  [full EXCEPT !.srcH = srcH,
                                     !.srcY = RDiv(RSub(RInt(inputH), srcH), RInt(2))]
          [] OTHER -> full

\* mutant: 'contain' letterboxes the wrong dimension (comparison reversed)
CropResizeContainReversed(inputW, inputH, outputW, outputH, fitMode) ==
    LET inputAspect == RDiv(RInt(inputW), RInt(inputH))
        outputAspect == RDiv(RInt(outputW), RInt(outputH))
        full == [srcX |-> RInt(0), srcY |-> RInt(0),
                 srcW |-> RInt(inputW), srcH |-> RInt(inputH),
                 destX |-> RInt(0), destY |-> RInt(0),
                 destW |-> RInt(outputW), destH |-> RInt(outputH)]
    IN  CASE fitMode = "contain" ->
               IF RLt(inputAspect, outputAspect)
               THEN LET destH == RDiv(RInt(outputW), inputAspect)
                    IN  [full EXCEPT !.destH = destH,
                                     !.destY = RDiv(RSub(RInt(outputH), destH), RInt(2))]
               ELSE LET destW == RMul(RInt(outputH), inputAspect)
                    IN  [full EXCEPT !.destW = destW,
                                     !.destX = RDiv(RSub(RInt(outputW), destW), RInt(2))]
          [] fitMode = "cover" ->
               IF RLt(outputAspect, inputAspect)
               THEN LET srcW == RMul(RInt(inputH), outputAspect)
                    IN  [full EXCEPT !.srcW = srcW,
                                     !.srcX = RDiv(RSub(RInt(inputW), srcW), RInt(2))]
               ELSE LET srcH == RDiv(RInt(inputW), outputAspect)
                    IN  [full EXCEPT !.srcH = srcH,
                                     !.srcY = RDiv(RSub(RInt(inputH), srcH), RInt(2))]
          [] OTHER -> full

\* mutant: the switch falls back to 'cover' for 'fill' and unknown modes
CropResizeDefaultCover(inputW, inputH, outputW, outputH, fitMode) ==
    LET inputAspect == RDiv(RInt(inputW), RInt(inputH))
        outputAspect == RDiv(RInt(outputW), RInt(outputH))
        full == [srcX |-> RInt(0), srcY |-> RInt(0),
                 srcW |-> RInt(inputW), srcH |-> RInt(inputH),
                 destX |-> RInt(0), destY |-> RInt(0),
                 destW |-> RInt(outputW), destH |-> RInt(outputH)]
    IN  CASE fitMode = "contain" ->
               IF RLt(outputAspect, inputAspect)
               THEN LET destH == RDiv(RInt(outputW), inputAspect)
                    IN  [full EXCEPT !.destH = destH,
                                     !.destY = RDiv(RSub(RInt(outputH), destH), RInt(2))]
               ELSE LET destW == RMul(RInt(outputH), inputAspect)
                    IN  [full EXCEPT !.destW = destW,
                                     !.destX = RDiv(RSub(RInt(outputW), destW), RInt(2))]
          [] OTHER ->
               IF RLt(outputAspect, inputAspect)
               THEN LET srcW == RMul(RInt(inputH), outputAspect)
                    IN  [full EXCEPT !.srcW = srcW,
                                     !.srcX = RDiv(RSub(RInt(inputW), srcW), RInt(2))]
               ELSE LET srcH == RDiv(RInt(inputW), outputAspect)
                    IN  [full EXCEPT !.srcH = srcH,
                                     !.srcY = RDiv(RSub(RInt(inputH), srcH), RInt(2))]

\* part_000:144-185.  `full` is the initial value of the eight locals; a
\* fitMode that matches no case leaves them as they are.
calculateCropResize(inputW, inputH, outputW, outputH, fitMode) ==
    LET inputAspect == RDiv(RInt(inputW), RInt(inputH))
        outputAspect == RDiv(RInt(outputW), RInt(outputH))
        full == [srcX |-> RInt(0), srcY |-> RInt(0),
                 srcW |-> RInt(inputW), srcH |-> RInt(inputH),
                 destX |-> RInt(0), destY |-> RInt(0),
                 destW |-> RInt(outputW), destH |-> RInt(outputH)]
    IN  CASE fitMode = "contain" ->
               IF RLt(outputAspect, inputAspect)
               THEN LET destH == RDiv(RInt(outputW), inputAspect)
                    IN  [full EXCEPT !.destH = destH,
                                     !.destY = RDiv(RSub(RInt(outputH), destH), RInt(2))]
               ELSE LET destW == RMul(RInt(outputH), inputAspect)
                    IN  [full EXCEPT !.destW = destW,
                                     !.destX = RDiv(RSub(RInt(outputW), destW), RInt(2))]
          [] fitMode = "cover" ->
               IF RLt(outputAspect, inputAspect)
               THEN LET srcW == RMul(RInt(inputH), outputAspect)
                    IN  [full EXCEPT !.srcW = srcW,
                                     !.srcX = RDiv(RSub(RInt(inputW), srcW), RInt(2))]
               ELSE LET srcH == RDiv(RInt(inputW), outputAspect)
                    IN  [full EXCEPT !.srcH = srcH,
                                     !.srcY = RDiv(RSub(RInt(inputH), srcH), RInt(2))]
          [] OTHER -> full

-----------------------------------------------------------------------------
(* MediaStreams and tracks *)

\* A track.  origin: "camera" | "mic" (acquired from a device), "canvas"
\* (canvas.captureStream), "clone" (track.clone()).  by/gen name the processor
\* and the startProcessing call that created a canvas track or a clone (0 for
\* device tracks).  cloneable: the track object has a clone method.
CameraTrack == [kind |-> "video", origin |-> "camera", id |-> 1, by |-> 0, gen |-> 0,
                cloneable |-> TRUE]
MicTrack(i, c) == [kind |-> "audio", origin |-> "mic", id |-> i, by |-> 0, gen |-> 0,
                   cloneable |-> c]
CanvasTrack(p, g) == [kind |-> "video", origin |-> "canvas", id |-> 0, by |-> p, gen |-> g,
                      cloneable |-> TRUE]
\* track.clone(): a new track of the same source
CloneOf(t, p, g) == [t EXCEPT !.origin = "clone", !.by = p, !.gen = g]

\* A MediaStream: getVideoTracks(), getAudioTracks()
Stream(v, a) == [video |-> v, audio |-> a]
getTracks(s) == s.video \cup s.audio

MicTracks == {MicTrack(i, c) : i \in 1..MaxAudio, c \in BOOLEAN}
\* input streams handed to startProcessing: zero or one camera track and up to
\* MaxAudio microphone tracks
InputStreams ==
    {Stream(v, a) : v \in {{}, {CameraTrack}},
                    a \in {A \in SUBSET MicTracks :
                             \A t, u \in A : t.id = u.id => t = u}}

-----------------------------------------------------------------------------
(* The state of ui.js that the video recording handlers use *)

StartIds == 1..MaxStarts

\* An invocation of startVideoRecording that has not begun.  aspect is its
\* local `aspect`; proc and rec are the VideoProcessor and the recorder this
\* invocation constructed (0: none).
NoStart == [pc |-> "idle", aspect |-> "", proc |-> 0, rec |-> 0]

\* A start handler suspended at `await videoProcessor.startProcessing(...)`
\* whose promise is settled resumes as a microtask, before any other task.
MicrotaskPending ==
    \E h \in StartIds : sh[h].pc = "awaitProc" /\ call[sh[h].proc].pc \in {"resolved", "rejected"}

\* the recording part of ui.js is not in use
RecIdle ==
    /\ previewStream = Null
    /\ processedStream = Null
    /\ videoProcessor = 0
    /\ nextProc = 0
    /\ videoRecorderCtl = 0
    /\ recorders = <<>>
    /\ aspectSel = "native"
    /\ ui = [startHidden |-> FALSE, stopHidden |-> TRUE, timerHidden |-> TRUE,
             videoTimerOn |-> FALSE]
    /\ sh = [h \in StartIds |-> NoStart]
    /\ statusText = ""

GeomIdle == geomIn = Null /\ geomOut = NoResult

\* no load was made yet
NoLoad == [outcome |-> "none", by |-> "", items |-> <<>>]
\* #storageStats before updateStorageStats has filled it
NoStats == [filled |-> FALSE]

\* the invocations of startPreview
PreviewIds == 1..MaxPreviews
\* An invocation of startPreview that has not begun; stream is its local
\* `stream` (Null until getCameraStream has resolved)
NoPreview == [pc |-> "idle", stream |-> Null]
\* no invocation of startPreview is followed
PrevIdle == ph = [i \in PreviewIds |-> NoPreview]

\* no function is under study
FnIdle == args = Null /\ result = NoResult

\* the clicks on the capture buttons
ClickIds == 1..MaxClicks
\* no click was made: the handler is not running
NoClick == [pc |-> "idle", button |-> "", seconds |-> 0, s |-> 0]
\* the badge as the page is loaded: hidden and without text (0)
BadgeHidden == [hidden |-> TRUE, text |-> 0]

CountIdle ==
    /\ timerSelect = 0
    /\ countdownBadge = BadgeHidden
    /\ clicks = [c \in ClickIds |-> NoClick]

\* metering.js:4-14: the fields the AudioMeter constructor sets (TRUE for an
\* object, FALSE for null; source is the stream the meter listens to)
NewAudioMeter == [isActive |-> FALSE, analyser |-> FALSE, dataArray |-> FALSE,
                  source |-> Null]

\* An invocation of startAudioRecording that has not begun; stream is its
\* local `stream` (Null until getUserMedia has resolved), rec the recorder it made
NoAudioStart == [pc |-> "idle", rec |-> 0, stream |-> Null]
\* the invocations of a stop handler that can be running at once
StopIds == 1..MaxStops
\* an invocation that is not running; rec is the recorder whose stop() it awaits
NoStop == [pc |-> "idle", rec |-> 0]
\* no stop handler is running
NoStops == [video |-> [k \in StopIds |-> NoStop], audio |-> [k \in StopIds |-> NoStop]]

\* the voice recording part of ui.js is not in use
StudioIdle ==
    /\ audioRecorderCtl = 0
    /\ audioMeter = Null
    /\ meteringHidden = TRUE
    /\ audioUi = [startHidden |-> FALSE, stopHidden |-> TRUE, audioTimerOn |-> FALSE]
    /\ ah = [a \in StartIds |-> NoAudioStart]
    /\ stopping = NoStops

\* the parts of the page outside the specification at hand are not in use
PageIdle == CountIdle /\ StudioIdle /\ FnIdle /\ PrevIdle

\* the gallery part of the page is not in use
GalIdle ==
    /\ store = {}
    /\ gallery = <<>>
    /\ pending = <<>>
    /\ lastLoad = NoLoad
    /\ storageStats = NoStats
    /\ live = {}

-----------------------------------------------------------------------------
(* VideoProcessor *)

ProcIds == 1..MaxProcs

\* part_000:7-14.  A canvas element is 300x150 until it is sized.
NewProcessor ==
    [canvas |-> <<300, 150>>, outputStream |-> Null, inputVideo |-> Null,
     animationId |-> 0, isProcessing |-> FALSE]

\* part_000:40-45: document.createElement('video') with srcObject set; a new
\* element has readyState 0 and no dimensions
NewVideoElement(inputStream) ==
    [srcObject |-> inputStream, readyState |-> 0, hasDims |-> FALSE]

\* part_000:27: the options of a startProcessing call
ProcOptions == [width : {1920, 1080}, height : {1080}, fitMode : {"cover"}]

ErrNoVideo == "No video tracks in input stream"
ErrMetaTimeout == "Video metadata timeout"
ErrPlay == "play() failed"
ErrTypeError == "TypeError: this.inputVideo is null"
ErrCapture == "Failed to capture canvas stream"

NoCall ==
    [seq |-> 0, pc |-> "idle", inputStream |-> Null, options |-> Null,
     result |-> Null, error |-> ""]

\* the promise returned by startProcessing is settled (or there is no call)
Settled(c) == c.pc \in {"idle", "resolved", "rejected"}
InFlight(c) == ~Settled(c)

Resolve(c, stream) == [c EXCEPT !.pc = "resolved", !.result = stream]
Reject(c, err) == [c EXCEPT !.pc = "rejected", !.error = err]

\* mutant: the canvas is sized before the input stream is validated
ProcAfterCallSizedFirst(o, inputStream, options) ==
    IF inputStream.video = {}
    THEN [o EXCEPT !.canvas = <<options.width, options.height>>]
    ELSE [o EXCEPT !.canvas = <<options.width, options.height>>,
                   !.inputVideo = NewVideoElement(inputStream)]

\* part_000:26-45: the processor after the synchronous head of startProcessing
ProcAfterCall(o, inputStream, options) ==
    IF inputStream.video = {}
    THEN o
    ELSE [o EXCEPT !.canvas = <<options.width, options.height>>,
                   !.inputVideo = NewVideoElement(inputStream)]

\* part_000:26-60: the call after the synchronous head: rejected at once, or
\* suspended at the first await (the metadata promise)
CallAfterCall(c, inputStream, options) ==
    LET c1 == [seq |-> c.seq + 1, pc |-> "meta", inputStream |-> inputStream,
               options |-> options, result |-> Null, error |-> ""]
    IN  IF inputStream.video = {}
        THEN Reject(c1, ErrNoVideo)
        ELSE IF NewVideoElement(inputStream).readyState >= 1
             THEN [c1 EXCEPT !.pc = "play1"]
             ELSE c1

\* mutant: stop() leaves the input video element in place
ProcAfterStopKeepingInput(o) ==
    [o EXCEPT !.isProcessing = FALSE, !.animationId = 0, !.outputStream = Null]

\* part_000:187-201: stop(), as its effect on the processor, on the pending
\* animation frame callbacks and on the tracks
ProcAfterStop(o) ==
    [o EXCEPT !.isProcessing = FALSE, !.animationId = 0,
              !.inputVideo = Null, !.outputStream = Null]
RafAfterStop(o, r) ==
    IF o.animationId /= 0 THEN [r EXCEPT !.cur = FALSE] ELSE r
EndedByStop(o) ==
    IF o.outputStream /= Null THEN getTracks(o.outputStream) ELSE {}

\* mutant: a track whose clone() or addTrack() throws is forwarded all the same
ForwardedAudioIgnoringThrow(audioTracks, throwing, p, g) ==
    {IF t.cloneable THEN CloneOf(t, p, g) ELSE t : t \in audioTracks}

\* part_000:95-106: the audio tracks added to the output stream; `throwing`
\* are the input tracks for which clone() or addTrack() throws
ForwardedAudio(audioTracks, throwing, p, g) ==
    {IF t.cloneable THEN CloneOf(t, p, g) ELSE t : t \in audioTracks \ throwing}

\* part_000:116-139: processFrame called on processor o: does it draw and
\* schedule the next frame?
FrameRuns(o) == o.isProcessing /\ o.inputVideo /= Null

\* part_000:87-113: the tail of startProcessing, run when the first frame is
\* there: captureStream, audio tracks, isProcessing, the first processFrame
CaptureAndResolve(p, captureThrows, throwing) ==
    LET c == call[p]
        o == proc[p]
        out == Stream({CanvasTrack(p, c.seq)},
                      ForwardedAudio(c.inputStream.audio, throwing, p, c.seq))
    IN  IF captureThrows
        THEN /\ call' = [call EXCEPT ![p] = Reject(c, ErrCapture)]
             /\ UNCHANGED <<proc, raf>>
        ELSE /\ proc' = [proc EXCEPT ![p] = [o EXCEPT !.outputStream = out,
                                                      !.isProcessing = TRUE,
                                                      !.animationId = 1]]
             \* the callback scheduled by an earlier call can no longer be cancelled
             /\ raf' = [raf EXCEPT ![p] = [cur |-> TRUE,
                            stale |-> @.stale + (IF @.cur THEN 1 ELSE 0)]]
             /\ call' = [call EXCEPT ![p] = Resolve(c, out)]

\* part_000:76-85: checkFrame called from a timer: an exception there is
\* uncaught and leaves the promise pending for ever
CheckFrame(p) ==
    /\ ~MicrotaskPending
    /\ call[p].pc = "checkFrame"
    /\ IF proc[p].inputVideo = Null
       THEN /\ call' = [call EXCEPT ![p].pc = "hung"]
            /\ UNCHANGED <<proc, raf>>
       ELSE IF proc[p].inputVideo.hasDims
            THEN \E captureThrows \in BOOLEAN :
                 \E throwing \in SUBSET call[p].inputStream.audio :
                    CaptureAndResolve(p, captureThrows, throwing)
            ELSE /\ call' = [call EXCEPT ![p].pc = "frameTimer"]
                 /\ UNCHANGED <<proc, raf>>
    /\ UNCHANGED ended
    /\ UNCHANGED nonProcVars

\* part_000:81: the 50 ms timer set by checkFrame expires
FrameTimer(p) ==
    /\ ~MicrotaskPending
    /\ call[p].pc = "frameTimer"
    /\ call' = [call EXCEPT ![p].pc = "checkFrame"]
    /\ UNCHANGED <<proc, raf, ended>>
    /\ UNCHANGED nonProcVars

\* part_000:73-85: the 50 ms settle timer expires and checkFrame is called from
\* the promise executor, where an exception rejects the promise
SettleTimer(p) ==
    /\ ~MicrotaskPending
    /\ call[p].pc = "settle"
    /\ IF proc[p].inputVideo = Null
       THEN /\ call' = [call EXCEPT ![p] = Reject(@, ErrTypeError)]
            /\ UNCHANGED <<proc, raf>>
       ELSE IF proc[p].inputVideo.hasDims
            THEN \E captureThrows \in BOOLEAN :
                 \E throwing \in SUBSET call[p].inputStream.audio :
                    CaptureAndResolve(p, captureThrows, throwing)
            ELSE /\ call' = [call EXCEPT ![p].pc = "frameTimer"]
                 /\ UNCHANGED <<proc, raf>>
    /\ UNCHANGED ended
    /\ UNCHANGED nonProcVars

\* the element fires 'loadedmetadata'; the dimensions are known then or (some
\* user agents, for a MediaStream) only later.  part_000:54-58: onMeta
LoadedMetadata(p) ==
    /\ ~MicrotaskPending
    /\ proc[p].inputVideo /= Null
    /\ proc[p].inputVideo.readyState = 0
    /\ \E d \in BOOLEAN :
          proc' = [proc EXCEPT ![p].inputVideo.readyState = 1,
                               ![p].inputVideo.hasDims = d]
    /\ call' = IF call[p].pc = "meta" THEN [call EXCEPT ![p].pc = "play1"] ELSE call
    /\ UNCHANGED <<raf, ended>>
    /\ UNCHANGED nonProcVars

\* the element gets its first frame: videoWidth and videoHeight become non-zero
FirstFrame(p) ==
    /\ ~MicrotaskPending
    /\ proc[p].inputVideo /= Null
    /\ proc[p].inputVideo.readyState = 1
    /\ ~proc[p].inputVideo.hasDims
    /\ proc' = [proc EXCEPT ![p].inputVideo.hasDims = TRUE]
    /\ UNCHANGED <<call, raf, ended>>
    /\ UNCHANGED nonProcVars

\* part_000:50-53: the 5000 ms timer expires; this.inputVideo is read again
MetadataTimeout(p) ==
    /\ ~MicrotaskPending
    /\ call[p].pc = "meta"
    /\ call' = IF proc[p].inputVideo = Null
               THEN [call EXCEPT ![p].pc = "hung"]
               ELSE [call EXCEPT ![p] = Reject(@, ErrMetaTimeout)]
    /\ UNCHANGED <<proc, raf, ended>>
    /\ UNCHANGED nonProcVars

\* part_000:62-66: the promise of the first play() settles
PlaySettles(p) ==
    /\ ~MicrotaskPending
    /\ call[p].pc = "play1"
    /\ \E ok \in BOOLEAN :
          call' = [call EXCEPT ![p].pc = IF ok THEN "settle" ELSE "retryWait"]
    /\ UNCHANGED <<proc, raf, ended>>
    /\ UNCHANGED nonProcVars

\* part_000:66-67: the 10 ms timer expires and play() is called again
RetryTimer(p) ==
    /\ ~MicrotaskPending
    /\ call[p].pc = "retryWait"
    /\ call' = IF proc[p].inputVideo = Null
               THEN [call EXCEPT ![p] = Reject(@, ErrTypeError)]
               ELSE [call EXCEPT ![p].pc = "play2"]
    /\ UNCHANGED <<proc, raf, ended>>
    /\ UNCHANGED nonProcVars

\* part_000:67-70: the promise of the second play() settles
RetrySettles(p) ==
    /\ ~MicrotaskPending
    /\ call[p].pc = "play2"
    /\ \E ok \in BOOLEAN :
          call' = [call EXCEPT ![p] = IF ok THEN [@ EXCEPT !.pc = "settle"]
                                            ELSE Reject(@, ErrPlay)]
    /\ UNCHANGED <<proc, raf, ended>>
    /\ UNCHANGED nonProcVars

\* part_000:138 and 116-139: a pending animation frame callback runs
\* processFrame; current: it is the callback animationId names
AnimationFrame(p) ==
    /\ ~MicrotaskPending
    /\ \E current \in BOOLEAN :
          /\ IF current THEN raf[p].cur ELSE raf[p].stale > 0
          /\ LET r == IF current THEN [raf[p] EXCEPT !.cur = FALSE]
                                 ELSE [raf[p] EXCEPT !.stale = @ - 1]
             IN  IF FrameRuns(proc[p])
                 THEN /\ raf' = [raf EXCEPT ![p] =
                                   [cur |-> TRUE,
                                    stale |-> r.stale + (IF r.cur THEN 1 ELSE 0)]]
                      /\ proc' = [proc EXCEPT ![p].animationId = 1]
                 ELSE /\ raf' = [raf EXCEPT ![p] = r]
                      /\ UNCHANGED proc
    /\ UNCHANGED <<call, ended>>
    /\ UNCHANGED nonProcVars

\* the steps of a processor that its caller does not take
ProcStep(p) ==
    \/ LoadedMetadata(p)
    \/ FirstFrame(p)
    \/ MetadataTimeout(p)
    \/ PlaySettles(p)
    \/ RetryTimer(p)
    \/ RetrySettles(p)
    \/ SettleTimer(p)
    \/ FrameTimer(p)
    \/ CheckFrame(p)
    \/ AnimationFrame(p)

\* the timers and promises of a processor that the user agent is bound to run;
\* 'loadedmetadata' and the first frame depend on the camera and are not
ProcFair(p) ==
    /\ WF_vars(MetadataTimeout(p))
    /\ WF_vars(PlaySettles(p))
    /\ WF_vars(RetryTimer(p))
    /\ WF_vars(RetrySettles(p))
    /\ WF_vars(SettleTimer(p))
    /\ WF_vars(FrameTimer(p))
    /\ WF_vars(CheckFrame(p))
    /\ WF_vars(AnimationFrame(p))

ProcInit ==
    /\ proc = [p \in ProcIds |-> NewProcessor]
    /\ call = [p \in ProcIds |-> NoCall]
    /\ raf = [p \in ProcIds |-> [cur |-> FALSE, stale |-> 0]]
    /\ ended = {}

-----------------------------------------------------------------------------
(* Specification of one VideoProcessor driven through its public methods *)

\* the processor under study
Harnessed == {1}

\* a caller invokes startProcessing (no earlier call is still pending)
CallStartProcessing(p) ==
    /\ ~MicrotaskPending
    /\ Settled(call[p])
    /\ call[p].seq < MaxCalls
    /\ \E inputStream \in InputStreams, options \in ProcOptions :
          /\ proc' = [proc EXCEPT ![p] = ProcAfterCall(@, inputStream, options)]
          /\ call' = [call EXCEPT ![p] = CallAfterCall(@, inputStream, options)]
    /\ UNCHANGED <<raf, ended>>
    /\ UNCHANGED nonProcVars

\* a caller invokes stop()
CallStop(p) ==
    /\ ~MicrotaskPending
    /\ proc' = [proc EXCEPT ![p] = ProcAfterStop(@)]
    /\ raf' = [raf EXCEPT ![p] = RafAfterStop(proc[p], @)]
    /\ ended' = ended \cup EndedByStop(proc[p])
    /\ UNCHANGED call
    /\ UNCHANGED nonProcVars

ProcSpecInit ==
    /\ ProcInit
    /\ GeomIdle
    /\ PageIdle
    /\ RecIdle
    /\ GalIdle

ProcSpecNext ==
    \E p \in Harnessed :
        \/ CallStartProcessing(p)
        \/ CallStop(p)
        \/ ProcStep(p)

SpecProc == ProcSpecInit /\ [][ProcSpecNext]_vars

\* The same processor with a caller that never calls stop(), and with the
\* user agent running every timer and settling every play() promise.
StartOnlyNext ==
    \E p \in Harnessed :
        \/ CallStartProcessing(p)
        \/ ProcStep(p)

FairSpecStart == ProcSpecInit /\ [][StartOnlyNext]_vars /\ \A p \in Harnessed : ProcFair(p)

-----------------------------------------------------------------------------
(* Claims about VideoProcessor.startProcessing *)

\* the audio track that forwards input track t in the call of processor p
ForwardOf(t, p) == IF t.cloneable THEN CloneOf(t, p, call[p].seq) ELSE t

\* C1: when startProcessing resolves, the returned stream contains the canvas
\* video track and, for every audio track of the input stream, one audio track
\* forwarded from it (its clone, or the track itself when it cannot be cloned);
\* no audio track of the input is dropped.
C1_AllAudioForwarded ==
    \A p \in ProcIds :
        call[p].pc = "resolved" =>
            /\ call[p].result.video = {CanvasTrack(p, call[p].seq)}
            /\ \A t \in call[p].inputStream.audio : ForwardOf(t, p) \in call[p].result.audio
            /\ Cardinality(call[p].result.audio) = Cardinality(call[p].inputStream.audio)

\* C5: every call of startProcessing eventually settles (resolves or rejects).
C5_EveryCallSettles ==
    \A p \in Harnessed : InFlight(call[p]) ~> Settled(call[p])

\* C6: a startProcessing call on a stream without video track rejects with
\* 'No video tracks in input stream' and leaves the processor as it was: no
\* input video element, output stream, frame loop or canvas size is set.
C6_NoVideoRejectsUnchanged ==
    [][\A p \in ProcIds :
          (call'[p].seq /= call[p].seq /\ call'[p].inputStream.video = {}) =>
              /\ call'[p].pc = "rejected"
              /\ call'[p].error = ErrNoVideo
              /\ proc'[p] = proc[p]
              /\ raf'[p] = raf[p]
              /\ ended' = ended]_vars

\* a new processor was called with an audio-only stream and the call rejected
C6_Witness ==
    /\ call[1].pc = "rejected"
    /\ call[1].error = ErrNoVideo
    /\ call[1].inputStream.audio /= {}
    /\ call[1].seq = 1
    /\ proc[1] = NewProcessor

\* the fields of processor o are as stop() leaves them
StoppedFields(o) ==
    /\ ~o.isProcessing
    /\ o.animationId = 0
    /\ o.inputVideo = Null
    /\ o.outputStream = Null

\* C24: a stop() step leaves isProcessing false, animationId, inputVideo and
\* outputStream null, no frame callback scheduled by animationId and every
\* track of the former output stream stopped; from then on, until
\* startProcessing is called again, no step draws or schedules a frame or
\* changes these fields; a stop() on a stopped processor changes nothing.
C24_StopStops ==
    [][\A p \in Harnessed :
          /\ CallStop(p) =>
                /\ StoppedFields(proc'[p])
                /\ ~raf'[p].cur
                /\ proc[p].outputStream /= Null =>
                       \A t \in getTracks(proc[p].outputStream) : t \in ended'
                /\ (StoppedFields(proc[p]) /\ ~raf[p].cur) =>
                       (proc' = proc /\ raf' = raf /\ ended' = ended /\ call' = call)
          /\ (StoppedFields(proc[p]) /\ ~raf[p].cur /\ call'[p].seq = call[p].seq) =>
                /\ StoppedFields(proc'[p])
                /\ ~raf'[p].cur
                /\ raf'[p].stale <= raf[p].stale]_vars

\* stop() was called on a processor that was processing, its startProcessing
\* call having resolved with a stream whose tracks are now all stopped, while a
\* frame callback of an earlier call is still pending
C24_Witness ==
    /\ call[1].pc = "resolved"
    /\ call[1].result.audio /= {}
    /\ getTracks(call[1].result) \subseteq ended
    /\ StoppedFields(proc[1])
    /\ ~raf[1].cur
    /\ raf[1].stale > 0

\* C25: no track of a stream that was handed to startProcessing (the preview
\* stream) is ever stopped by stop() or by the clean-up of a recording: the
\* input keeps its live video and audio tracks.
C25_InputTracksStayLive ==
    /\ \A p \in ProcIds :
          call[p].inputStream /= Null =>
              \A t \in getTracks(call[p].inputStream) : t \notin ended
    /\ previewStream /= Null => \A t \in getTracks(previewStream) : t \notin ended

\* C28: when the 5000 ms timer expires while the call still waits for
\* 'loadedmetadata', the call rejects with 'Video metadata timeout' and the
\* processor is left as it is (no output stream is created, the frame loop is
\* not started); once the event has fired, no step rejects the call with that
\* error.
C28_MetadataTimeoutRejects ==
    [][\A p \in Harnessed :
          /\ MetadataTimeout(p) =>
                /\ call'[p].pc = "rejected"
                /\ call'[p].error = ErrMetaTimeout
                /\ proc'[p] = proc[p]
                /\ raf'[p] = raf[p]
          /\ (call[p].pc /= "meta" /\ call'[p].seq = call[p].seq) =>
                (call'[p].error = ErrMetaTimeout => call[p].error = ErrMetaTimeout)]_vars

-----------------------------------------------------------------------------
(* ui.js: getOutputDimensions, getProcessingOptions, toggleVideoButtons *)

AspectOptions == {"native", "16:9", "1:1"}

\* aspect.split(':').map(Number)
AspectParts(aspect) ==
    CASE aspect = "16:9" -> <<16, 9>>
      [] aspect = "1:1" -> <<1, 1>>
      [] aspect = "4:3" -> <<4, 3>>
      [] aspect = "9:16" -> <<9, 16>>

\* the value of #resolutionSelect (its default)
BaseResolution == <<1920, 1080>>

\* Math.round of a non-negative rational
RRound(r) == (2 * r.n + r.d) \div (2 * r.d)

\* part_001:93-118
getOutputDimensions(aspect) ==
    LET baseWidth == BaseResolution[1]
        baseHeight == BaseResolution[2]
    IN  IF aspect = "native"
        THEN [width |-> baseWidth, height |-> baseHeight]
        ELSE LET aspectRatio == RDiv(RInt(AspectParts(aspect)[1]), RInt(AspectParts(aspect)[2]))
             IN  IF RLt(RDiv(RInt(baseWidth), RInt(baseHeight)), aspectRatio)
                 THEN [width |-> baseWidth,
                       height |-> RRound(RDiv(RInt(baseWidth), aspectRatio))]
                 ELSE [width |-> RRound(RMul(RInt(baseHeight), aspectRatio)),
                       height |-> baseHeight]

\* part_001:120-126, with #fitModeSelect at its default
getProcessingOptions(aspect) ==
    [width |-> getOutputDimensions(aspect).width,
     height |-> getOutputDimensions(aspect).height,
     fitMode |-> "cover"]

\* part_001:45-54
toggleVideoButtons(u, isRecording) ==
    [u EXCEPT !.startHidden = isRecording, !.stopHidden = ~isRecording]

-----------------------------------------------------------------------------
(* ui.js: startVideoRecording.  The handler is written as a function of the  *)
(* state it reads and writes, one function per stretch between two awaits.   *)

\* the state a stretch of the handler works on
Cur ==
    [proc |-> proc, call |-> call, raf |-> raf, ended |-> ended,
     processedStream |-> processedStream, videoProcessor |-> videoProcessor,
     nextProc |-> nextProc, videoRecorderCtl |-> videoRecorderCtl,
     recorders |-> recorders, ui |-> ui, sh |-> sh, statusText |-> statusText]

Commit(S) ==
    /\ proc' = S.proc
    /\ call' = S.call
    /\ raf' = S.raf
    /\ ended' = S.ended
    /\ processedStream' = S.processedStream
    /\ videoProcessor' = S.videoProcessor
    /\ nextProc' = S.nextProc
    /\ videoRecorderCtl' = S.videoRecorderCtl
    /\ recorders' = S.recorders
    /\ ui' = S.ui
    /\ sh' = S.sh
    /\ statusText' = S.statusText

StatusRecording == "Recording video"
StatusProcessing == "Processing video for recording"
StatusProcessed == "Recording processed video"
StatusFallback == "Processing failed, recording native video"
StatusStartFailed == "Failed to start recording"

\* part_001:322-325 (and 348-351): if (videoProcessor) { stop(); videoProcessor = null }
StopVideoProcessor(S) ==
    IF S.videoProcessor /= 0
    THEN LET p == S.videoProcessor
         IN  [S EXCEPT !.proc[p] = ProcAfterStop(@),
                       !.raf[p] = RafAfterStop(S.proc[p], @),
                       !.ended = @ \cup EndedByStop(S.proc[p]),
                       !.videoProcessor = 0]
    ELSE S

\* part_001:345-358: the outer catch
StartFailed(S, h) ==
    LET S1 == StopVideoProcessor([S EXCEPT !.statusText = StatusStartFailed])
        S2 == IF S1.processedStream /= Null
              THEN [S1 EXCEPT !.ended = @ \cup getTracks(S1.processedStream),
                              !.processedStream = Null]
              ELSE S1
    IN  [S2 EXCEPT !.ui = toggleVideoButtons(@, FALSE), !.sh[h].pc = "done"]

\* part_001:334-336: videoRecorderCtl.start() and the wait of one timeslice.
\* MediaRecorder.start throws on a recorder that is not inactive; startThrows:
\* it throws for a reason of its own.
StartRecorder(S, h, startThrows) ==
    IF S.videoRecorderCtl = 0
    THEN StartFailed(S, h)
    ELSE IF startThrows \/ S.recorders[S.videoRecorderCtl].state /= "inactive"
         THEN StartFailed(S, h)
         ELSE [S EXCEPT !.recorders[S.videoRecorderCtl].state = "recording",
                        !.sh[h].pc = "slice"]

\* part_001:329-336: createRecorder(recordingStream) (part_002:193-238; new
\* MediaRecorder can throw), then the warm-up wait or start() at once
CreateAndStart(S, h, recordingStream, createThrows, startThrows) ==
    IF createThrows
    THEN StartFailed(S, h)
    ELSE LET id == Len(S.recorders) + 1
             S1 == [S EXCEPT !.recorders = Append(@, [stream |-> recordingStream,
                                                      state |-> "inactive",
                                                      saves |-> 0]),
                             !.videoRecorderCtl = id,
                             !.sh[h].rec = id]
         IN  IF recordingStream = S1.processedStream
             THEN [S1 EXCEPT !.sh[h].pc = "warmup"]
             ELSE StartRecorder(S1, h, startThrows)

\* part_001:291-310: from the call to the await of startProcessing, or, with
\* aspect 'native', to the await of the timeslice
startVideoRecording(S, h, createThrows, startThrows) ==
    IF previewStream = Null
    THEN [S EXCEPT !.sh[h].pc = "done"]
    ELSE IF previewStream.video = {}
    THEN [S EXCEPT !.sh[h].pc = "done"]
    ELSE LET aspect == aspectSel
             S0 == [S EXCEPT !.statusText = StatusRecording, !.sh[h].aspect = aspect]
         IN  IF aspect = "native"
             THEN CreateAndStart(S0, h, previewStream, createThrows, startThrows)
             ELSE LET p == S0.nextProc + 1
                      options == getProcessingOptions(aspect)
                  IN  [S0 EXCEPT !.statusText = StatusProcessing,
                                 !.nextProc = p,
                                 !.videoProcessor = p,
                                 !.proc[p] = ProcAfterCall(@, previewStream, options),
                                 !.call[p] = CallAfterCall(@, previewStream, options),
                                 !.sh[h].proc = p,
                                 !.sh[h].pc = "awaitProc"]

\* part_001:310-336: from the settling of startProcessing to the next await
ResumeStart(S, h, createThrows, startThrows) ==
    LET c == S.call[S.sh[h].proc]
    IN  IF c.pc = "resolved"
        THEN LET S1 == [S EXCEPT !.processedStream = c.result]
             IN  IF c.result.video = {}
                 THEN CreateAndStart(
                          StopVideoProcessor([S1 EXCEPT !.statusText = StatusFallback]),
                          h, previewStream, createThrows, startThrows)
                 ELSE CreateAndStart([S1 EXCEPT !.statusText = StatusProcessed],
                                     h, c.result, createThrows, startThrows)
        ELSE CreateAndStart(
                 StopVideoProcessor([S EXCEPT !.statusText = StatusFallback]),
                 h, previewStream, createThrows, startThrows)

\* the Start Video button is clicked (no countdown) and the handler runs up
\* to its first await
StartVideoRecording(h) ==
    /\ ~MicrotaskPending
    /\ sh[h].pc = "idle"
    /\ \A g \in StartIds : g < h => sh[g].pc /= "idle"
    /\ ~ui.startHidden
    /\ nextProc < MaxProcs
    /\ Len(recorders) < MaxRecs
    /\ \E createThrows, startThrows \in BOOLEAN :
          Commit(startVideoRecording(Cur, h, createThrows, startThrows))
    /\ UNCHANGED <<geomVars, pageVars, galVars, previewStream, aspectSel>>

\* the promise of startProcessing has settled and the handler resumes
ResumeAfterProcessing(h) ==
    /\ sh[h].pc = "awaitProc"
    /\ call[sh[h].proc].pc \in {"resolved", "rejected"}
    /\ \E createThrows, startThrows \in BOOLEAN :
          Commit(ResumeStart(Cur, h, createThrows, startThrows))
    /\ UNCHANGED <<geomVars, pageVars, galVars, previewStream, aspectSel>>

\* part_001:332-334: the 200 ms warm-up is over
WarmupTimer(h) ==
    /\ ~MicrotaskPending
    /\ sh[h].pc = "warmup"
    /\ \E startThrows \in BOOLEAN : Commit(StartRecorder(Cur, h, startThrows))
    /\ UNCHANGED <<geomVars, pageVars, galVars, previewStream, aspectSel>>

\* part_001:336-344: the 260 ms timeslice wait is over
SliceTimer(h) ==
    /\ ~MicrotaskPending
    /\ sh[h].pc = "slice"
    /\ ui' = toggleVideoButtons([ui EXCEPT !.timerHidden = FALSE, !.videoTimerOn = TRUE], TRUE)
    /\ statusText' = StatusRecording
    /\ sh' = [sh EXCEPT ![h].pc = "done"]
    /\ UNCHANGED <<geomVars, pageVars, procVars, galVars, previewStream, processedStream,
                   videoProcessor, nextProc, videoRecorderCtl, recorders, aspectSel>>

\* the page after startPreview: the camera was acquired (with or without the
\* microphone) or it was not
RecInit ==
    /\ ProcInit
    /\ GeomIdle
    /\ PageIdle
    /\ previewStream \in {Null, Stream({CameraTrack}, {}),
                          Stream({CameraTrack}, {MicTrack(1, TRUE)})}
    /\ aspectSel \in AspectOptions
    /\ processedStream = Null
    /\ videoProcessor = 0
    /\ nextProc = 0
    /\ videoRecorderCtl = 0
    /\ recorders = <<>>
    /\ ui = [startHidden |-> FALSE, stopHidden |-> TRUE, timerHidden |-> TRUE,
             videoTimerOn |-> FALSE]
    /\ sh = [h \in StartIds |-> NoStart]
    /\ statusText = ""
    /\ GalIdle

RecNext ==
    \/ \E h \in StartIds :
          \/ StartVideoRecording(h)
          \/ ResumeAfterProcessing(h)
          \/ WarmupTimer(h)
          \/ SliceTimer(h)
    \/ \E p \in ProcIds : ProcStep(p)

SpecRec == RecInit /\ [][RecNext]_vars

-----------------------------------------------------------------------------
(* Claims about startVideoRecording *)

\* stop() was the last thing done to processor o
Stopped(o) == o = ProcAfterStop(o)

\* invocation h received a successful result from startProcessing
ProcessingSucceeded(h) ==
    /\ sh[h].aspect /= "native"
    /\ sh[h].proc /= 0
    /\ call[sh[h].proc].pc = "resolved"
    /\ call[sh[h].proc].result.video /= {}

\* C7: startVideoRecording hands the recorder the processed stream exactly
\* when the aspect is not 'native' and startProcessing succeeded with a video
\* track; with 'native' no processor is created and the preview stream is
\* recorded; when processing fails the preview stream is recorded, the failed
\* processor is stopped and discarded (videoProcessor = null) and the recording
\* still starts (unless MediaRecorder itself throws).
C7_RecorderGetsProcessedIffSucceeded ==
    [][\A h \in StartIds :
          \* the step in which invocation h creates its recorder
          /\ (sh[h].rec = 0 /\ sh'[h].rec /= 0) =>
                LET stream == recorders'[sh'[h].rec].stream
                IN  IF ProcessingSucceeded(h)
                    THEN stream = call[sh[h].proc].result
                    ELSE stream = previewStream
          \* the step in which invocation h begins with aspect 'native'
          /\ (sh[h].pc = "idle" /\ sh'[h].pc /= "idle" /\ sh'[h].aspect = "native") =>
                /\ nextProc' = nextProc
                /\ sh'[h].proc = 0
                /\ sh'[h].rec /= 0 => recorders'[sh'[h].rec].stream = previewStream
          \* the step in which invocation h learns that processing failed
          /\ (sh[h].pc = "awaitProc" /\ sh'[h].pc /= "awaitProc" /\ ~ProcessingSucceeded(h)) =>
                /\ videoProcessor' = 0
                /\ Stopped(proc'[sh[h].proc])
                /\ \/ /\ sh'[h].rec /= 0
                      /\ recorders'[sh'[h].rec].stream = previewStream
                      /\ recorders'[sh'[h].rec].state = "recording"
                   \/ statusText' = StatusStartFailed]_vars

-----------------------------------------------------------------------------
(* storage.js: the gallery store *)

\* Date.now()
Clock == 1..MaxTime
\* Math.random().toString(36).substring(2): a single value, so that two ids
\* made in the same millisecond collide
RandomParts == {1}

\* blobs a photo capture can deliver: the canvas fallback (PNG) and a blob
\* without a type
PhotoBlobs ==
    {[size |-> 5, type |-> "image/png"], [size |-> 3, type |-> ""]}

\* positions in the gallery view
Positions == 1..(MaxItems + 2)

\* items saved by earlier sessions: a video recording and a voice recording
PriorVideo ==
    [id |-> <<0, 1>>, blob |-> [size |-> 7, type |-> "video/webm"], type |-> "video/webm",
     size |-> 7, timestamp |-> 0, source |-> "video_recording", duration |-> 4,
     aspect |-> "16:9", resolution |-> "1920x1080"]
PriorAudio ==
    [id |-> <<0, 2>>, blob |-> [size |-> 2, type |-> "audio/webm"], type |-> "audio/webm",
     size |-> 2, timestamp |-> 0, source |-> "voice_recording", duration |-> 1]

\* storage.js:37-44: the item saveGalleryItem builds; the metadata is spread
\* last and overrides a field of the same name
NewItem(blob, type, metadata, now, random, later) ==
    metadata @@ [id |-> <<now, random>>, blob |-> blob, type |-> type,
                 size |-> blob.size, timestamp |-> later]

\* mutant: store.put, which replaces an item with the same id
StorePut(S, item) ==
    [ok |-> TRUE, store |-> {x \in S : x.id /= item.id} \cup {item}]

\* storage.js:47-49: store.add(item); the key path is 'id' and add fails on a
\* key that is already there
StoreAdd(S, item) ==
    IF \E x \in S : x.id = item.id
    THEN [ok |-> FALSE, store |-> S]
    ELSE [ok |-> TRUE, store |-> S \cup {item}]

\* storage.js:94: store.delete(id) (succeeds whether or not the key exists)
StoreDelete(S, id) == {x \in S : x.id /= id}

\* the order of the 'timestamp' index: by timestamp, then by primary key
IndexLe(x, y) ==
    \/ x.timestamp < y.timestamp
    \/ /\ x.timestamp = y.timestamp
       /\ \/ x.id[1] < y.id[1]
          \/ x.id[1] = y.id[1] /\ x.id[2] <= y.id[2]

\* storage.js:67-70: index.getAll()
RECURSIVE IndexGetAll(_)
IndexGetAll(S) ==
    IF S = {}
    THEN <<>>
    ELSE LET m == CHOOSE x \in S : \A y \in S : IndexLe(x, y)
         IN  <<m>> \o IndexGetAll(S \ {m})

\* mutant: the result of getAll is returned as it is
KeepIndexOrder(items) == items

RECURSIVE InsertDescending(_, _)
InsertDescending(sorted, x) ==
    IF sorted = <<>>
    THEN <<x>>
    ELSE IF Head(sorted).timestamp - x.timestamp >= 0
         THEN <<Head(sorted)>> \o InsertDescending(Tail(sorted), x)
         ELSE <<x>> \o sorted

\* storage.js:73: items.sort((a, b) => b.timestamp - a.timestamp); the sort
\* is stable
RECURSIVE SortDescending(_)
SortDescending(items) ==
    IF items = <<>>
    THEN <<>>
    ELSE InsertDescending(SortDescending(SubSeq(items, 1, Len(items) - 1)),
                          items[Len(items)])

\* storage.js:62-82: what a loadGalleryItems call settles to.  opened: initDB
\* resolved; requestOk: the getAll request succeeded
loadGalleryItems(S, by, opened, requestOk) ==
    IF ~opened
    THEN [outcome |-> "openFailed", by |-> by, items |-> <<>>]
    ELSE IF ~requestOk
         THEN [outcome |-> "rejected", by |-> by, items |-> <<>>]
         ELSE [outcome |-> "items", by |-> by, items |-> SortDescending(IndexGetAll(S))]

\* the MIME types that start with 'video/' and with 'audio/'
VideoTypes == {"video/webm", "video/mp4"}
AudioTypes == {"audio/webm", "audio/ogg", "audio/wav"}

\* mutant: a type that starts with 'audio/' is not told from an image
CategoryWithoutAudio(type) ==
    IF type \in VideoTypes THEN "video" ELSE "image"

\* storage.js:132-133
Category(type) ==
    IF type \in VideoTypes THEN "video"
    ELSE IF type \in AudioTypes THEN "audio"
    ELSE "image"

\* storage.js:130: item.size || 0
SizeOrZero(item) ==
    IF "size" \in DOMAIN item THEN item.size ELSE 0

\* storage.js:130: items.reduce((sum, item) => sum + (item.size || 0), 0)
RECURSIVE SumSizes(_)
SumSizes(items) ==
    IF items = <<>> THEN 0 ELSE SizeOrZero(Head(items)) + SumSizes(Tail(items))

\* storage.js:127-148: getStorageStats on the outcome of its loadGalleryItems call
getStorageStats(loaded) ==
    IF loaded.outcome = "rejected"
    THEN [filled |-> TRUE, totalItems |-> 0, totalSize |-> 0,
          counts |-> [video |-> 0, audio |-> 0, image |-> 0]]
    ELSE [filled |-> TRUE,
          totalItems |-> Len(loaded.items),
          totalSize |-> SumSizes(loaded.items),
          counts |-> [c \in {"video", "audio", "image"} |->
                        Cardinality({i \in 1..Len(loaded.items) :
                                       Category(loaded.items[i].type) = c})]]

-----------------------------------------------------------------------------
(* ui.js: the gallery view and the handlers that use the store.  The        *)
(* database runs the calls in the order they were made; each call is made   *)
(* by one action and settled, with the rest of its handler, by another.     *)

StatusCameraReady == "Camera ready"
StatusCameraFailed == "Failed to start camera"
StatusCapturing == "Capturing photo"
StatusPhotoCaptured == "Photo captured"
StatusPhotoFailed == "Photo capture failed"
StatusGalleryCleared == "Gallery cleared"

\* part_001:195-229: what a successful startPreview leaves in previewStream
PreviewOutcomes == {Stream({CameraTrack}, {})}
StatusAfterPreview(stream) ==
    IF stream = Null THEN StatusCameraFailed ELSE StatusCameraReady

\* part_001:591-601: the call updateStorageStats makes
StatsCall == [kind |-> "stats"]

\* utils.js:50-104: the element createGalleryItem builds for an item
GalleryElement(id, type, blob) == [id |-> id, type |-> type, blob |-> blob]

\* element.remove()
RemoveElement(elements, id) ==
    LET Other(e) == e.id /= id
    IN  SelectSeq(elements, Other)

PendingSaves == Cardinality({i \in 1..Len(pending) : pending[i].kind = "save"})

\* part_001:250-268: the Photo button is clicked (no countdown), the photo is
\* captured and saveGalleryItem is called
TakePhoto ==
    /\ Len(pending) < MaxPending
    /\ Cardinality(store) + PendingSaves < MaxItems
    /\ previewStream /= Null
    /\ \E captured \in BOOLEAN :
          IF captured
          THEN \E blob \in PhotoBlobs :
                  /\ statusText' = StatusCapturing
                  /\ pending' = Append(pending,
                        [kind |-> "save", blob |-> blob,
                         type |-> IF blob.type = "" THEN "image/jpeg" ELSE blob.type,
                         metadata |-> [source |-> "camera", aspect |-> aspectSel]])
          ELSE /\ statusText' = StatusPhotoFailed
               /\ UNCHANGED pending
    /\ lastLoad' = NoLoad
    /\ UNCHANGED <<store, gallery, storageStats, live>>
    /\ UNCHANGED <<geomVars, pageVars, procVars, recVars>>

\* storage.js:31-57 and part_001:268-288: saveGalleryItem settles and takePhoto
\* goes on
SaveSettles ==
    /\ pending /= <<>>
    /\ Head(pending).kind = "save"
    /\ \E opened, requestOk \in BOOLEAN, now \in Clock, random \in RandomParts :
       \E later \in {now, now + 1} \cap Clock :
          LET op == Head(pending)
              item == NewItem(op.blob, op.type, op.metadata, now, random, later)
              added == StoreAdd(store, item)
          IN  IF opened /\ requestOk /\ added.ok
              THEN /\ store' = added.store
                   /\ live' = live \cup {[id |-> item.id, blob |-> op.blob, type |-> op.type,
                                          metadata |-> op.metadata]}
                   /\ gallery' = <<GalleryElement(item.id, op.type, op.blob)>> \o gallery
                   /\ statusText' = StatusPhotoCaptured
                   /\ pending' = Append(Tail(pending), StatsCall)
                   /\ lastLoad' = NoLoad
                   /\ UNCHANGED storageStats
              ELSE /\ statusText' = StatusPhotoFailed
                   /\ pending' = Tail(pending)
                   /\ lastLoad' = NoLoad
                   /\ UNCHANGED <<store, gallery, storageStats, live>>
    /\ UNCHANGED <<geomVars, pageVars, procVars, recVars>>

\* part_001:278-281 and 570-573: the Delete button of the i-th element is clicked
ClickDelete(i) ==
    /\ Len(pending) < MaxPending
    /\ i \in 1..Len(gallery)
    /\ pending' = Append(pending, [kind |-> "delete", id |-> gallery[i].id,
                                   confirmed |-> FALSE])
    /\ lastLoad' = NoLoad
    /\ UNCHANGED <<store, gallery, storageStats, live>>
    /\ UNCHANGED <<geomVars, pageVars, procVars, recVars, statusText>>

\* storage.js:87-102 and the .then of the delete handler
DeleteSettles ==
    /\ pending /= <<>>
    /\ Head(pending).kind = "delete"
    /\ \E opened, requestOk \in BOOLEAN :
          IF opened /\ requestOk
          THEN /\ store' = StoreDelete(store, Head(pending).id)
               /\ live' = {s \in live : s.id /= Head(pending).id}
               /\ gallery' = RemoveElement(gallery, Head(pending).id)
               /\ pending' = Append(Tail(pending), StatsCall)
               /\ lastLoad' = NoLoad
               /\ UNCHANGED storageStats
          ELSE /\ pending' = Tail(pending)
               /\ lastLoad' = NoLoad
               /\ UNCHANGED <<store, gallery, storageStats, live>>
    /\ UNCHANGED <<geomVars, pageVars, procVars, recVars, statusText>>

\* mutant: clearGallery is called whatever confirm() returned
AfterConfirmIgnored(P, answer) ==
    Append(P, [kind |-> "clear", confirmed |-> answer])

\* part_001:537-540: `if (!confirm(...)) return;` and then the call of
\* clearGallery
AfterConfirm(P, answer) ==
    IF answer THEN Append(P, [kind |-> "clear", confirmed |-> TRUE]) ELSE P

\* part_001:536-540: the Clear button is clicked and confirm() is answered
ClickClear ==
    /\ Len(pending) < MaxPending
    /\ \E answer \in BOOLEAN : pending' = AfterConfirm(pending, answer)
    /\ lastLoad' = NoLoad
    /\ UNCHANGED <<store, gallery, storageStats, live>>
    /\ UNCHANGED <<geomVars, pageVars, procVars, recVars, statusText>>

\* storage.js:107-122 and part_001:540-547
ClearSettles ==
    /\ pending /= <<>>
    /\ Head(pending).kind = "clear"
    /\ \E opened, requestOk \in BOOLEAN :
          IF opened /\ requestOk
          THEN /\ store' = {}
               /\ live' = {}
               /\ gallery' = <<>>
               /\ statusText' = StatusGalleryCleared
               /\ pending' = Append(Tail(pending), StatsCall)
               /\ lastLoad' = NoLoad
               /\ UNCHANGED storageStats
          ELSE /\ pending' = Tail(pending)
               /\ lastLoad' = NoLoad
               /\ UNCHANGED <<store, gallery, storageStats, live, statusText>>
    /\ UNCHANGED <<geomVars, pageVars, procVars, recVars>>

\* storage.js:62-82 and part_001:550-578, 659-666: loadGalleryItems settles,
\* loadGallery rebuilds the view and initialize calls updateStorageStats
LoadGallerySettles ==
    /\ pending /= <<>>
    /\ Head(pending).kind = "loadGallery"
    /\ \E opened, requestOk \in BOOLEAN :
          LET loaded == loadGalleryItems(store, "loadGallery", opened, requestOk)
          IN  /\ lastLoad' = loaded
              /\ gallery' = IF loaded.outcome = "rejected"
                            THEN gallery
                            ELSE [i \in 1..Len(loaded.items) |->
                                    GalleryElement(loaded.items[i].id, loaded.items[i].type,
                                                   loaded.items[i].blob)]
    /\ pending' = Append(Tail(pending), StatsCall)
    /\ UNCHANGED <<store, storageStats, live>>
    /\ UNCHANGED <<geomVars, pageVars, procVars, recVars, statusText>>

\* storage.js:127-148 and part_001:591-601: getStorageStats settles
StatsSettles ==
    /\ pending /= <<>>
    /\ Head(pending).kind = "stats"
    /\ \E opened, requestOk \in BOOLEAN :
          LET loaded == loadGalleryItems(store, "stats", opened, requestOk)
          IN  /\ lastLoad' = loaded
              /\ storageStats' = getStorageStats(loaded)
    /\ pending' = Tail(pending)
    /\ UNCHANGED <<store, gallery, live>>
    /\ UNCHANGED <<geomVars, pageVars, procVars, recVars, statusText>>

\* the page is loaded again: part_001:659-666 up to the call of loadGallery
Reload ==
    /\ previewStream' \in PreviewOutcomes
    /\ statusText' = StatusAfterPreview(previewStream')
    /\ gallery' = <<>>
    /\ pending' = <<[kind |-> "loadGallery"]>>
    /\ lastLoad' = NoLoad
    /\ storageStats' = NoStats
    /\ UNCHANGED <<store, live>>
    /\ UNCHANGED <<geomVars, pageVars, procVars, processedStream, videoProcessor, nextProc,
                   videoRecorderCtl, recorders, aspectSel, ui, sh>>

\* the page after initialize has called loadGallery, over what earlier
\* sessions left in the store
GalInit ==
    /\ ProcInit
    /\ GeomIdle
    /\ PageIdle
    /\ previewStream \in PreviewOutcomes
    /\ statusText = StatusAfterPreview(previewStream)
    /\ aspectSel \in {"native", "16:9"}
    /\ processedStream = Null
    /\ videoProcessor = 0
    /\ nextProc = 0
    /\ videoRecorderCtl = 0
    /\ recorders = <<>>
    /\ ui = [startHidden |-> FALSE, stopHidden |-> TRUE, timerHidden |-> TRUE,
             videoTimerOn |-> FALSE]
    /\ sh = [h \in StartIds |-> NoStart]
    /\ store \in SUBSET {PriorVideo, PriorAudio}
    /\ gallery = <<>>
    /\ pending = <<[kind |-> "loadGallery"]>>
    /\ lastLoad = NoLoad
    /\ storageStats = NoStats
    /\ live = {}

GalNext ==
    \/ TakePhoto
    \/ SaveSettles
    \/ \E i \in Positions : ClickDelete(i)
    \/ DeleteSettles
    \/ ClickClear
    \/ ClearSettles
    \/ LoadGallerySettles
    \/ StatsSettles
    \/ Reload

SpecGallery == GalInit /\ [][GalNext]_vars

-----------------------------------------------------------------------------
(* Claims about the gallery store *)

\* item is what the resolved save s stored: its id, blob, type, size and
\* every metadata field
Carries(item, s) ==
    /\ item.id = s.id
    /\ item.blob = s.blob
    /\ item.type = s.type
    /\ item.size = s.blob.size
    /\ \A k \in DOMAIN s.metadata : item[k] = s.metadata[k]

\* the list holds exactly one item for every save that is still live, and
\* that item is the saved one
ReturnsEverySave(items) ==
    \A s \in live :
        /\ Cardinality({i \in 1..Len(items) : items[i].id = s.id}) = 1
        /\ \A i \in 1..Len(items) : items[i].id = s.id => Carries(items[i], s)

C9_NewestFirst ==
    lastLoad.outcome /= "none" =>
        \A i, j \in 1..Len(lastLoad.items) :
            i < j => lastLoad.items[i].timestamp >= lastLoad.items[j].timestamp

\* a load returned two photos of this session, the newer one first (the index
\* lists it last)
C9_Witness ==
    /\ lastLoad.outcome = "items"
    /\ Len(lastLoad.items) = 2
    /\ lastLoad.items[1].timestamp > lastLoad.items[2].timestamp
    /\ lastLoad.items[2].timestamp >= 1

\* C10: an individual item is deleted only after the user confirmed: a click
\* on Delete that is not confirmed leaves the item in the store and in the
\* gallery view.
C10_DeleteOnlyConfirmed ==
    [][(/\ pending /= <<>>
        /\ Head(pending).kind = "delete"
        /\ ~Head(pending).confirmed
        \* the step settles that call
        /\ pending' \in {Tail(pending), Append(Tail(pending), StatsCall)}) =>
          /\ store' = store
          /\ gallery' = gallery]_vars

\* C11: clearAllGallery empties the store and the gallery view only after a
\* confirmed click; a declined click leaves the store, the gallery view, the
\* storage statistics and the status text as they were; a clearGallery that
\* fails leaves the gallery view as it was.
C11_ClearOnlyConfirmed ==
    [][/\ (/\ pending /= <<>>
            /\ Head(pending).kind = "clear"
            /\ pending' \in {Tail(pending), Append(Tail(pending), StatsCall)}) =>
              /\ (store' /= store \/ gallery' /= gallery) => Head(pending).confirmed
              /\ pending' = Tail(pending) => store' = store /\ gallery' = gallery
       /\ (ClickClear /\ pending' = pending) =>
              UNCHANGED <<store, gallery, storageStats, statusText>>]_vars

\* a confirmed clear has emptied a store and a view that held items
C11_Witness ==
    /\ statusText = StatusGalleryCleared
    /\ store = {}
    /\ gallery = <<>>
    /\ pending /= <<>>
    /\ pending[Len(pending)] = StatsCall
    /\ storageStats = getStorageStats([outcome |-> "items", by |-> "stats",
                                       items |-> <<PriorVideo>>])

-----------------------------------------------------------------------------
(* Specification of getStorageStats over the stores earlier sessions can     *)
(* have left: updateStorageStats is called and settles, nothing else runs    *)

\* a photo, an item stored without a size, and an item of another type
PriorPhoto ==
    [id |-> <<0, 3>>, blob |-> [size |-> 5, type |-> "image/png"], type |-> "image/png",
     size |-> 5, timestamp |-> 0, source |-> "camera", aspect |-> "native"]
PriorUnsized ==
    [id |-> <<0, 4>>, blob |-> [size |-> 9, type |-> "video/mp4"], type |-> "video/mp4",
     timestamp |-> 0]
PriorOther ==
    [id |-> <<0, 5>>, blob |-> [size |-> 1, type |-> "text/plain"], type |-> "text/plain",
     size |-> 1, timestamp |-> 0]
StatItems == {PriorVideo, PriorAudio, PriorPhoto, PriorUnsized, PriorOther}

\* part_001:591-593: updateStorageStats calls getStorageStats
UpdateStorageStats ==
    /\ Len(pending) < MaxPending
    /\ pending' = Append(pending, StatsCall)
    /\ UNCHANGED <<store, gallery, lastLoad, storageStats, live>>
    /\ UNCHANGED <<geomVars, pageVars, procVars, recVars, statusText>>

StatsInit ==
    /\ ProcInit
    /\ GeomIdle
    /\ PageIdle
    /\ RecIdle
    /\ store \in SUBSET StatItems
    /\ gallery = <<>>
    /\ pending = <<>>
    /\ lastLoad = NoLoad
    /\ storageStats = NoStats
    /\ live = {}

StatsNext ==
    \/ UpdateStorageStats
    \/ StatsSettles

SpecStats == StatsInit /\ [][StatsNext]_vars

RECURSIVE StoredSize(_)
StoredSize(S) ==
    IF S = {}
    THEN 0
    ELSE LET x == CHOOSE y \in S : TRUE
         IN  (IF "size" \in DOMAIN x THEN x.size ELSE 0) + StoredSize(S \ {x})

ZeroStats ==
    /\ storageStats.totalItems = 0
    /\ storageStats.totalSize = 0
    /\ \A c \in DOMAIN storageStats.counts : storageStats.counts[c] = 0

\* C12: getStorageStats returns the number of stored items, the sum of their
\* sizes with a missing size counted as 0, and one count per category (video,
\* audio, image for the rest) that together sum to totalItems; when the
\* storage fails it resolves to the all-zero statistics.
C12_StatsOfStore ==
    storageStats.filled =>
        IF lastLoad.outcome = "items"
        THEN /\ storageStats.totalItems = Cardinality(store)
             /\ storageStats.totalSize = StoredSize(store)
             /\ storageStats.counts["video"] =
                    Cardinality({x \in store : x.type \in VideoTypes})
             /\ storageStats.counts["audio"] =
                    Cardinality({x \in store : x.type \in AudioTypes})
             /\ storageStats.counts["image"] =
                    Cardinality({x \in store : x.type \notin VideoTypes \cup AudioTypes})
             /\ storageStats.counts["video"] + storageStats.counts["audio"]
                  + storageStats.counts["image"] = storageStats.totalItems
        ELSE ZeroStats

\* the statistics of a store that holds every kind of item, one of them
\* without a size
C12_Witness ==
    /\ store = StatItems
    /\ lastLoad.outcome = "items"
    /\ storageStats.filled
    /\ storageStats.totalItems = 5
    /\ storageStats.totalSize = 15
    /\ storageStats.counts["image"] = 2

\* a failed read has settled to the all-zero statistics over a store with items
C12_WitnessFailure ==
    /\ store = StatItems
    /\ lastLoad.outcome = "rejected"
    /\ storageStats.filled
    /\ ZeroStats

-----------------------------------------------------------------------------
(* ui.js: the countdown before a capture.  A click handler of Photo, Start    *)
(* Video or Start Audio awaits runCountdownIfNeeded and then calls            *)
(* takePhoto, startVideoRecording or startAudioRecording; the buttons stay    *)
(* enabled while a countdown runs.                                            *)

Buttons == {"photo", "video", "audio"}

Counting(c) == clicks[c].pc = "counting"

\* the user picks another value of #timerSelect
SelectTimer(n) ==
    /\ n /= timerSelect
    /\ timerSelect' = n
    /\ UNCHANGED <<countdownBadge, clicks>>
    /\ UNCHANGED <<geomVars, procVars, recVars, statusText, galVars, studioVars, fnVars, prevVars>>

\* part_001:636-649 and 67-76: a capture button is clicked.  Without a
\* countdown runCountdownIfNeeded returns at once and the handler goes on to
\* the capture in a microtask; with one the badge is shown with the first
\* value and the first timer is set.  Clicks are numbered in their order.
ClickCapture(c, button) ==
    /\ clicks[c].pc = "idle"
    /\ \A d \in ClickIds : d < c => clicks[d].pc /= "idle"
    /\ LET seconds == timerSelect
       IN  IF seconds <= 0
           THEN /\ clicks' = [clicks EXCEPT ![c] =
                       [pc |-> "begun", button |-> button, seconds |-> 0, s |-> 0]]
                /\ UNCHANGED countdownBadge
           ELSE /\ countdownBadge' = [hidden |-> FALSE, text |-> seconds]
                /\ clicks' = [clicks EXCEPT ![c] =
                       [pc |-> "counting", button |-> button, seconds |-> seconds,
                        s |-> seconds]]
    /\ UNCHANGED timerSelect
    /\ UNCHANGED <<geomVars, procVars, recVars, statusText, galVars, studioVars, fnVars, prevVars>>

\* part_001:74-79 and 636-649: the 1000 ms timer of a countdown fires; the
\* loop goes on with the next value, or ends, hides the badge and returns
\* true, and the click handler calls the capture.  A countdown that was
\* started earlier has made every tick before a later one makes the same.
CountdownTimer(c) ==
    /\ Counting(c)
    /\ \A d \in ClickIds :
          (d < c /\ Counting(d)) =>
              clicks[d].seconds - clicks[d].s > clicks[c].seconds - clicks[c].s
    /\ LET s == clicks[c].s - 1
       IN  IF s > 0
           THEN /\ countdownBadge' = [countdownBadge EXCEPT !.text = s]
                /\ clicks' = [clicks EXCEPT ![c].s = s]
           ELSE /\ countdownBadge' = [countdownBadge EXCEPT !.hidden = TRUE]
                /\ clicks' = [clicks EXCEPT ![c].s = s, ![c].pc = "begun"]
    /\ UNCHANGED timerSelect
    /\ UNCHANGED <<geomVars, procVars, recVars, statusText, galVars, studioVars, fnVars, prevVars>>

CountInit ==
    /\ ProcInit
    /\ GeomIdle
    /\ RecIdle
    /\ GalIdle
    /\ StudioIdle
    /\ FnIdle
    /\ PrevIdle
    /\ timerSelect \in 0..MaxCountdown
    /\ countdownBadge = BadgeHidden
    /\ clicks = [c \in ClickIds |-> NoClick]

CountNext ==
    \/ \E n \in 0..MaxCountdown : SelectTimer(n)
    \/ \E c \in ClickIds, button \in Buttons : ClickCapture(c, button)
    \/ \E c \in ClickIds : CountdownTimer(c)

SpecCountdown == CountInit /\ [][CountNext]_vars

\* C13: a click with a countdown of N > 0 seconds shows the badge with N, ...,
\* 1, hides it after the last value and only then begins the capture; the
\* badge is visible for as long as any countdown is running; a click without
\* a countdown begins the capture without the badge being shown.
C13_BadgeWhileCounting ==
    /\ [](\A c \in ClickIds :
            /\ Counting(c) => ~countdownBadge.hidden
            /\ clicks[c].pc = "begun" => clicks[c].s = 0)
    /\ [][\A c \in ClickIds :
            /\ (Counting(c) /\ clicks'[c].pc = "begun") =>
                   clicks[c].s = 1 /\ countdownBadge'.hidden
            /\ (clicks[c].pc = "idle" /\ clicks'[c].pc = "begun") =>
                   countdownBadge' = countdownBadge]_vars

-----------------------------------------------------------------------------
(* metering.js: AudioMeter *)

\* where connect can throw: nowhere, in `new AudioContext()`, or in
\* createMediaStreamSource (the context and the analyser are then assigned)
ConnectFailures == {"none", "context", "source"}

\* mutant: connect marks the meter active whatever happened
connectAlwaysActive(m, stream, failAt) ==
    [isActive |-> TRUE, analyser |-> TRUE, dataArray |-> TRUE, source |-> stream]

\* metering.js:16-37
connect(m, stream, failAt) ==
    IF stream.audio = {}
    THEN m
    ELSE CASE failAt = "context" -> m
           [] failAt = "source" -> [m EXCEPT !.analyser = TRUE]
           [] OTHER -> [isActive |-> TRUE, analyser |-> TRUE, dataArray |-> TRUE,
                        source |-> stream]

\* metering.js:56-67
disconnect(m) ==
    [isActive |-> FALSE, analyser |-> FALSE, dataArray |-> FALSE, source |-> Null]

-----------------------------------------------------------------------------
(* ui.js: voice recording, stopping a recording, and the elements the two    *)
(* kinds of recording share (#recordingTimer, #meteringContainer)            *)

\* the stream getUserMedia({audio, video: false}) gives invocation a
VoiceTrack(a) == MicTrack(MaxAudio + a, TRUE)
VoiceStream(a) == Stream({}, {VoiceTrack(a)})

\* the blobs a recorder delivers
VideoBlob == [size |-> 7, type |-> "video/webm"]
VoiceBlob == [size |-> 2, type |-> "audio/webm"]

\* part_001:56-65
toggleAudioButtons(u, isRecording) ==
    [u EXCEPT !.startHidden = isRecording, !.stopHidden = ~isRecording]

\* a MediaRecorder stops when every track of its stream has ended
AfterTracksEnded(R, E) ==
    [i \in DOMAIN R |->
        IF getTracks(R[i].stream) \subseteq E THEN [R[i] EXCEPT !.state = "inactive"]
        ELSE R[i]]

\* part_001:146-167: setupAudioMetering(stream) on a page without a meter
MeterAfterSetup(stream, failAt) ==
    IF stream.audio = {} THEN Null ELSE connect(NewAudioMeter, stream, failAt)

\* part_001:443-462: the Start Audio button is clicked (no countdown) and the
\* handler runs up to `await getUserMedia`
StartAudioRecording(a) ==
    /\ ~MicrotaskPending
    /\ ah[a].pc = "idle"
    /\ \A b \in StartIds : b < a => ah[b].pc /= "idle"
    /\ ~audioUi.startHidden
    /\ statusText' = "Recording audio"
    /\ ah' = [ah EXCEPT ![a].pc = "awaitStream"]
    /\ UNCHANGED <<geomVars, countVars, fnVars, prevVars, procVars, galVars, previewStream, processedStream,
                   videoProcessor, nextProc, videoRecorderCtl, recorders, aspectSel, ui, sh,
                   audioRecorderCtl, audioMeter, meteringHidden, audioUi, stopping>>

\* part_001:462-492: getUserMedia settles and the handler runs to its end.
\* outcome: the permission is denied, createRecorder throws, start() throws,
\* or the recording starts.
AudioStreamSettles(a) ==
    /\ ~MicrotaskPending
    /\ ah[a].pc = "awaitStream"
    /\ \E outcome \in {"denied", "createThrows", "startThrows", "ok"},
          failAt \in ConnectFailures :
          LET id == Len(recorders) + 1
              stream == VoiceStream(a)
          IN  /\ outcome \in {"startThrows", "ok"} => Len(recorders) < MaxRecs
              /\ IF outcome = "ok"
                 THEN /\ recorders' = Append(recorders, [stream |-> stream,
                                                         state |-> "recording",
                                                         saves |-> 0])
                      /\ audioRecorderCtl' = id
                      /\ audioMeter' = connect(NewAudioMeter, stream, failAt)
                      /\ meteringHidden' = IF audioMeter'.isActive THEN FALSE
                                           ELSE meteringHidden
                      /\ ui' = [ui EXCEPT !.timerHidden = FALSE]
                      /\ audioUi' = toggleAudioButtons(
                                        [audioUi EXCEPT !.audioTimerOn = TRUE], TRUE)
                      /\ ah' = [ah EXCEPT ![a] = [pc |-> "done", rec |-> id,
                                                  stream |-> stream]]
                      /\ UNCHANGED statusText
                 ELSE /\ IF outcome = "startThrows"
                         THEN /\ recorders' = Append(recorders, [stream |-> stream,
                                                                 state |-> "inactive",
                                                                 saves |-> 0])
                              /\ audioRecorderCtl' = id
                         ELSE UNCHANGED <<recorders, audioRecorderCtl>>
                      /\ statusText' = "Audio recording failed"
                      /\ audioUi' = toggleAudioButtons(audioUi, FALSE)
                      /\ ah' = [ah EXCEPT ![a] =
                                  [pc |-> "done",
                                   rec |-> IF outcome = "startThrows" THEN id ELSE 0,
                                   stream |-> IF outcome = "denied" THEN Null ELSE stream]]
                      /\ UNCHANGED <<audioMeter, meteringHidden, ui>>
    /\ UNCHANGED <<geomVars, countVars, fnVars, prevVars, procVars, galVars, previewStream, processedStream,
                   videoProcessor, nextProc, videoRecorderCtl, aspectSel, sh, stopping>>

\* part_001:361-371: the Stop Video button is clicked and the handler runs up
\* to `await videoRecorderCtl.stop()`
StopVideoRecording(k) ==
    /\ ~MicrotaskPending
    /\ ~ui.stopHidden
    /\ videoRecorderCtl /= 0
    /\ stopping.video[k].pc = "idle"
    /\ \A j \in StopIds : j < k => stopping.video[j].pc /= "idle"
    /\ statusText' = "Finalizing video"
    /\ ui' = [ui EXCEPT !.videoTimerOn = FALSE, !.timerHidden = TRUE]
    /\ stopping' = [stopping EXCEPT !.video[k] = [pc |-> "recorderStop",
                                                  rec |-> videoRecorderCtl]]
    /\ UNCHANGED <<geomVars, countVars, fnVars, prevVars, procVars, galVars, previewStream, processedStream,
                   videoProcessor, nextProc, videoRecorderCtl, recorders, aspectSel, sh,
                   audioRecorderCtl, audioMeter, meteringHidden, audioUi, ah>>

\* part_001:494-503: the Stop Audio button is clicked and the handler runs up
\* to `await audioRecorderCtl.stop()`; stopMeterAnimation is part_001:183-193
StopAudioRecording(k) ==
    /\ ~MicrotaskPending
    /\ ~audioUi.stopHidden
    /\ audioRecorderCtl /= 0
    /\ stopping.audio[k].pc = "idle"
    /\ \A j \in StopIds : j < k => stopping.audio[j].pc /= "idle"
    /\ statusText' = "Finalizing audio"
    /\ audioUi' = [audioUi EXCEPT !.audioTimerOn = FALSE]
    /\ ui' = [ui EXCEPT !.timerHidden = TRUE]
    /\ audioMeter' = Null
    /\ meteringHidden' = TRUE
    /\ stopping' = [stopping EXCEPT !.audio[k] = [pc |-> "recorderStop",
                                                  rec |-> audioRecorderCtl]]
    /\ UNCHANGED <<geomVars, countVars, fnVars, prevVars, procVars, galVars, previewStream, processedStream,
                   videoProcessor, nextProc, videoRecorderCtl, recorders, aspectSel, sh,
                   audioRecorderCtl, ah>>

\* part_002:217-235: the 100 ms timer of stop() fires and recorder.stop() runs
\* (on a recorder that is inactive already it throws and onStop is called)
RecorderStopTimer(kind, k) ==
    /\ ~MicrotaskPending
    /\ stopping[kind][k].pc = "recorderStop"
    /\ recorders' = [recorders EXCEPT ![stopping[kind][k].rec].state = "inactive"]
    /\ stopping' = [stopping EXCEPT ![kind][k].pc = "blob"]
    /\ UNCHANGED <<geomVars, countVars, fnVars, prevVars, procVars, galVars, previewStream, processedStream,
                   videoProcessor, nextProc, videoRecorderCtl, aspectSel, ui, sh, statusText,
                   audioRecorderCtl, audioMeter, meteringHidden, audioUi, ah>>

\* part_001:388-396 (and 432-440): the video processor and the processed
\* stream are cleaned up
CleanUpProcessing(S) ==
    LET S1 == StopVideoProcessor(S)
    IN  IF S1.processedStream /= Null
        THEN [S1 EXCEPT !.ended = @ \cup getTracks(S1.processedStream),
                        !.processedStream = Null]
        ELSE S1

\* part_001:425-442: the catch of stopVideoRecording and the statement after it
StopVideoFailed(S) ==
    LET S1 == CleanUpProcessing([S EXCEPT !.statusText = "Video recording failed"])
    IN  [S1 EXCEPT !.ui = toggleVideoButtons(@, FALSE), !.videoRecorderCtl = 0]

\* part_001:371-402: the promise of stop() resolves with the blob; an empty
\* blob leads to the 200 ms retry wait, another one to the clean-up and to the
\* call of saveGalleryItem
VideoBlobResolves(k) ==
    /\ stopping.video[k].pc = "blob"
    /\ \E empty \in BOOLEAN :
          IF empty
          THEN /\ stopping' = [stopping EXCEPT !.video[k].pc = "retry"]
               /\ UNCHANGED <<procVars, recVars, statusText>>
          ELSE /\ stopping' = [stopping EXCEPT !.video[k].pc = "save"]
               /\ Commit(CleanUpProcessing(Cur))
               /\ UNCHANGED <<previewStream, aspectSel>>
    /\ UNCHANGED <<geomVars, countVars, fnVars, prevVars, galVars,
                   audioRecorderCtl, audioMeter, meteringHidden, audioUi, ah>>

\* part_001:377-383: the retry wait is over; the chunks now make a blob or
\* the handler throws
VideoRetryTimer(k) ==
    /\ ~MicrotaskPending
    /\ stopping.video[k].pc = "retry"
    /\ \E late \in BOOLEAN :
          IF late /\ videoRecorderCtl /= 0
          THEN /\ stopping' = [stopping EXCEPT !.video[k].pc = "save"]
               /\ Commit(CleanUpProcessing(Cur))
          ELSE /\ stopping' = [stopping EXCEPT !.video[k] = NoStop]
               /\ Commit(StopVideoFailed(Cur))
    /\ UNCHANGED <<previewStream, aspectSel>>
    /\ UNCHANGED <<geomVars, countVars, fnVars, prevVars, galVars,
                   audioRecorderCtl, audioMeter, meteringHidden, audioUi, ah>>

\* part_001:402-442: saveGalleryItem settles and the handler runs to
\* its end (videoTimer was stopped, so getElapsed() is 0)
VideoSaveSettles(k) ==
    /\ stopping.video[k].pc = "save"
    /\ Len(pending) < MaxPending
    /\ \E saved \in BOOLEAN, now \in Clock, random \in RandomParts :
          LET metadata == [source |-> "video_recording", duration |-> 0,
                           aspect |-> aspectSel,
                           resolution |-> getOutputDimensions(aspectSel)]
              item == NewItem(VideoBlob, VideoBlob.type, metadata, now, random, now)
              added == StoreAdd(store, item)
          IN  IF saved /\ added.ok /\ Cardinality(store) < MaxItems
              THEN /\ store' = added.store
                   /\ live' = live \cup {[id |-> item.id, blob |-> VideoBlob,
                                          type |-> VideoBlob.type, metadata |-> metadata]}
                   /\ gallery' = <<GalleryElement(item.id, VideoBlob.type, VideoBlob)>>
                                    \o gallery
                   /\ pending' = Append(pending, StatsCall)
                   /\ Commit([Cur EXCEPT !.statusText = "Video saved",
                                         !.ui = toggleVideoButtons(@, FALSE),
                                         !.videoRecorderCtl = 0,
                                         !.recorders[stopping.video[k].rec].saves = @ + 1])
              ELSE /\ Commit(StopVideoFailed(Cur))
                   /\ UNCHANGED <<store, live, gallery, pending>>
    /\ stopping' = [stopping EXCEPT !.video[k] = NoStop]
    /\ lastLoad' = NoLoad
    /\ UNCHANGED <<geomVars, countVars, fnVars, prevVars, storageStats, previewStream, aspectSel,
                   audioRecorderCtl, audioMeter, meteringHidden, audioUi, ah>>

\* part_001:503-509 and 527-533: the promise of stop() resolves; the stream of
\* the recorder audioRecorderCtl names now is stopped and saveGalleryItem is
\* called, or the handler throws and ends
AudioBlobResolves(k) ==
    /\ stopping.audio[k].pc = "blob"
    /\ IF audioRecorderCtl /= 0
       THEN LET E == ended \cup getTracks(recorders[audioRecorderCtl].stream)
            IN  /\ ended' = E
                /\ recorders' = AfterTracksEnded(recorders, E)
                /\ stopping' = [stopping EXCEPT !.audio[k].pc = "save"]
                /\ UNCHANGED <<statusText, audioUi, audioRecorderCtl>>
       ELSE /\ statusText' = "Audio recording failed"
            /\ audioUi' = toggleAudioButtons(audioUi, FALSE)
            /\ stopping' = [stopping EXCEPT !.audio[k] = NoStop]
            /\ UNCHANGED <<ended, recorders, audioRecorderCtl>>
    /\ UNCHANGED <<geomVars, countVars, fnVars, prevVars, galVars, proc, call, raf, previewStream,
                   processedStream, videoProcessor, nextProc, videoRecorderCtl, aspectSel,
                   ui, sh, audioMeter, meteringHidden, ah>>

\* part_001:509-533: saveGalleryItem settles and the handler runs to its end
\* (audioTimer was stopped, so getElapsed() is 0)
AudioSaveSettles(k) ==
    /\ stopping.audio[k].pc = "save"
    /\ Len(pending) < MaxPending
    /\ \E saved \in BOOLEAN, now \in Clock, random \in RandomParts :
          LET metadata == [source |-> "voice_recording", duration |-> 0]
              item == NewItem(VoiceBlob, VoiceBlob.type, metadata, now, random, now)
              added == StoreAdd(store, item)
          IN  IF saved /\ added.ok /\ Cardinality(store) < MaxItems
              THEN /\ store' = added.store
                   /\ live' = live \cup {[id |-> item.id, blob |-> VoiceBlob,
                                          type |-> VoiceBlob.type, metadata |-> metadata]}
                   /\ gallery' = <<GalleryElement(item.id, VoiceBlob.type, VoiceBlob)>>
                                    \o gallery
                   /\ pending' = Append(pending, StatsCall)
                   /\ statusText' = "Audio saved"
                   /\ recorders' = [recorders EXCEPT ![stopping.audio[k].rec].saves = @ + 1]
              ELSE /\ statusText' = "Audio recording failed"
                   /\ UNCHANGED <<store, live, gallery, pending, recorders>>
    /\ audioUi' = toggleAudioButtons(audioUi, FALSE)
    /\ audioRecorderCtl' = 0
    /\ stopping' = [stopping EXCEPT !.audio[k] = NoStop]
    /\ lastLoad' = NoLoad
    /\ UNCHANGED <<geomVars, countVars, fnVars, prevVars, procVars, storageStats, previewStream,
                   processedStream, videoProcessor, nextProc, videoRecorderCtl,
                   aspectSel, ui, sh, audioMeter, meteringHidden, ah>>

\* the page after startPreview acquired the camera, with or without the
\* microphone, and set up the meter; the aspect is 'native'
StudioInit ==
    /\ ProcInit
    /\ GeomIdle
    /\ CountIdle
    /\ PrevIdle
    /\ FnIdle
    /\ GalIdle
    /\ previewStream \in {Stream({CameraTrack}, {}),
                          Stream({CameraTrack}, {MicTrack(1, TRUE)})}
    /\ aspectSel = "native"
    /\ processedStream = Null
    /\ videoProcessor = 0
    /\ nextProc = 0
    /\ videoRecorderCtl = 0
    /\ recorders = <<>>
    /\ ui = [startHidden |-> FALSE, stopHidden |-> TRUE, timerHidden |-> TRUE,
             videoTimerOn |-> FALSE]
    /\ sh = [h \in StartIds |-> NoStart]
    /\ statusText = StatusCameraReady
    /\ audioRecorderCtl = 0
    /\ audioMeter \in {MeterAfterSetup(previewStream, f) : f \in ConnectFailures}
    /\ meteringHidden = (audioMeter = Null \/ ~audioMeter.isActive)
    /\ audioUi = [startHidden |-> FALSE, stopHidden |-> TRUE, audioTimerOn |-> FALSE]
    /\ ah = [a \in StartIds |-> NoAudioStart]
    /\ stopping = NoStops

\* the Start buttons can be clicked again while a start handler is running; a
\* Stop button is not clicked again before its handler has finished
StudioNext ==
    \/ \E h \in StartIds : StartVideoRecording(h)
    \/ \E h \in StartIds : SliceTimer(h)
    \/ \E k \in {1} : StopVideoRecording(k)
    \/ \E k \in {1} : VideoBlobResolves(k)
    \/ \E k \in {1} : VideoRetryTimer(k)
    \/ \E k \in {1} : VideoSaveSettles(k)
    \/ \E a \in StartIds : StartAudioRecording(a)
    \/ \E a \in StartIds : AudioStreamSettles(a)
    \/ \E k \in {1} : StopAudioRecording(k)
    \/ \E kind \in {"video", "audio"}, k \in {1} : RecorderStopTimer(kind, k)
    \/ \E k \in {1} : AudioBlobResolves(k)
    \/ \E k \in {1} : AudioSaveSettles(k)
    \/ StatsSettles

SpecStudio == StudioInit /\ [][StudioNext]_vars

-----------------------------------------------------------------------------
(* Claims about the recording controls *)

\* a start or stop handler of the kind is between its first and last statement
VideoHandlerRunning ==
    \/ \E h \in StartIds : sh[h].pc \notin {"idle", "done"}
    \/ \E k \in StopIds : stopping.video[k].pc /= "idle"
VoiceHandlerRunning ==
    \/ \E a \in StartIds : ah[a].pc \notin {"idle", "done"}
    \/ \E k \in StopIds : stopping.audio[k].pc /= "idle"

\* some MediaRecorder on a stream with / without a video track is recording
SomeVideoRecording ==
    \E i \in DOMAIN recorders :
        recorders[i].state = "recording" /\ recorders[i].stream.video /= {}
SomeVoiceRecording ==
    \E i \in DOMAIN recorders :
        recorders[i].state = "recording" /\ recorders[i].stream.video = {}

\* the recorder the page holds is recording and no handler of its kind runs
VideoInProgress ==
    /\ videoRecorderCtl /= 0
    /\ recorders[videoRecorderCtl].state = "recording"
    /\ ~VideoHandlerRunning
VoiceInProgress ==
    /\ audioRecorderCtl /= 0
    /\ recorders[audioRecorderCtl].state = "recording"
    /\ ~VoiceHandlerRunning

\* C14: between handlers, Stop is visible and Start hidden exactly while a
\* recording of the kind is in progress, and Start visible and Stop hidden
\* otherwise; the two buttons of a pair are never both visible or both hidden.
C14_ButtonsContextual ==
    /\ ui.startHidden /= ui.stopHidden
    /\ audioUi.startHidden /= audioUi.stopHidden
    /\ ~VideoHandlerRunning => ((ui.startHidden /\ ~ui.stopHidden) <=> SomeVideoRecording)
    /\ ~VoiceHandlerRunning =>
          ((audioUi.startHidden /\ ~audioUi.stopHidden) <=> SomeVoiceRecording)

\* C15: while a recording with an audio track is in progress, and no meter
\* failed to connect, an active meter is connected to a stream with an audio
\* track and the metering container is visible.
C15_MeterWhileAudioRecorded ==
    (/\ \/ VideoInProgress /\ recorders[videoRecorderCtl].stream.audio /= {}
        \/ VoiceInProgress
     /\ audioMeter = Null \/ audioMeter.isActive) =>
        /\ audioMeter /= Null
        /\ audioMeter.isActive
        /\ audioMeter.source.audio /= {}
        /\ ~meteringHidden

\* C16: while a video or a voice recording is in progress the recording timer
\* display is visible; it is hidden only when none is in progress.
C16_TimerWhileRecording ==
    (VideoInProgress \/ VoiceInProgress) => ~ui.timerHidden

\* the MediaRecorders created by startVideoRecording that are recording
RecordingVideoRecorders ==
    {i \in DOMAIN recorders :
        recorders[i].state = "recording" /\ recorders[i].stream.video /= {}}

\* C22: at most one MediaRecorder created by startVideoRecording is in the
\* recording state, and every such recorder is the one videoRecorderCtl names.
C22_OneRecorderReachable ==
    /\ Cardinality(RecordingVideoRecorders) <= 1
    /\ \A i \in RecordingVideoRecorders : videoRecorderCtl = i

\* a track on which stop() was not called
Live(t) == t \notin ended

\* C27: whenever no voice recording is in progress and no voice handler is
\* running, no microphone stream that startAudioRecording acquired has a live
\* track.
C27_VoiceStreamsStopped ==
    (~VoiceHandlerRunning /\ ~SomeVoiceRecording) =>
        \A a \in StartIds :
            ah[a].stream /= Null => \A t \in getTracks(ah[a].stream) : ~Live(t)

-----------------------------------------------------------------------------
(* Specification of the Stop buttons: a native video recording and a voice   *)
(* recording are in progress, and each Stop button can be clicked again      *)
(* while an earlier click on it is still being handled                       *)

\* the page while recorder 1 records the preview stream and recorder 2 the
\* microphone stream of a voice recording, both started by one click each
StopsInit ==
    /\ ProcInit
    /\ GeomIdle
    /\ CountIdle
    /\ PrevIdle
    /\ FnIdle
    /\ GalIdle
    /\ previewStream = Stream({CameraTrack}, {MicTrack(1, TRUE)})
    /\ aspectSel = "native"
    /\ processedStream = Null
    /\ videoProcessor = 0
    /\ nextProc = 0
    /\ recorders = <<[stream |-> previewStream, state |-> "recording", saves |-> 0],
                     [stream |-> VoiceStream(1), state |-> "recording", saves |-> 0]>>
    /\ videoRecorderCtl = 1
    /\ audioRecorderCtl = 2
    /\ ui = [startHidden |-> TRUE, stopHidden |-> FALSE, timerHidden |-> FALSE,
             videoTimerOn |-> TRUE]
    /\ audioUi = [startHidden |-> TRUE, stopHidden |-> FALSE, audioTimerOn |-> TRUE]
    /\ sh = [h \in StartIds |->
                IF h = 1 THEN [pc |-> "done", aspect |-> "native", proc |-> 0, rec |-> 1]
                ELSE NoStart]
    /\ ah = [a \in StartIds |-> IF a = 1 THEN [pc |-> "done", rec |-> 2, stream |-> VoiceStream(1)]
                                    ELSE NoAudioStart]
    /\ statusText = StatusRecording
    /\ audioMeter = connect(NewAudioMeter, VoiceStream(1), "none")
    /\ meteringHidden = FALSE
    /\ stopping = NoStops

StopsNext ==
    \/ \E k \in StopIds : StopVideoRecording(k)
    \/ \E k \in StopIds : VideoBlobResolves(k)
    \/ \E k \in StopIds : VideoRetryTimer(k)
    \/ \E k \in StopIds : VideoSaveSettles(k)
    \/ \E k \in StopIds : StopAudioRecording(k)
    \/ \E kind \in {"video", "audio"}, k \in StopIds : RecorderStopTimer(kind, k)
    \/ \E k \in StopIds : AudioBlobResolves(k)
    \/ \E k \in StopIds : AudioSaveSettles(k)
    \/ StatsSettles

SpecStops == StopsInit /\ [][StopsNext]_vars

\* C21: each started video or voice recording adds at most one item to the
\* gallery store and at most one element to the gallery view, however often
\* and whenever its Stop button is clicked (a recorder's saves counts the steps
\* in which an item made from its blob was added to the store and to #gallery).
C21_OneItemPerRecording ==
    \A i \in DOMAIN recorders : recorders[i].saves <= 1

\* the state SpecStops starts in
StopsInitReached ==
    /\ recorders = <<[stream |-> previewStream, state |-> "recording", saves |-> 0],
                     [stream |-> VoiceStream(1), state |-> "recording", saves |-> 0]>>
    /\ videoRecorderCtl = 1 /\ audioRecorderCtl = 2
    /\ ui = [startHidden |-> TRUE, stopHidden |-> FALSE, timerHidden |-> FALSE,
             videoTimerOn |-> TRUE]
    /\ audioUi = [startHidden |-> TRUE, stopHidden |-> FALSE, audioTimerOn |-> TRUE]
    /\ sh[1] = [pc |-> "done", aspect |-> "native", proc |-> 0, rec |-> 1]
    /\ sh[2] = NoStart
    /\ ah[1] = [pc |-> "done", rec |-> 2, stream |-> VoiceStream(1)] /\ ah[2] = NoAudioStart
    /\ statusText = StatusRecording
    /\ audioMeter = connect(NewAudioMeter, VoiceStream(1), "none")
    /\ meteringHidden = FALSE
    /\ stopping = NoStops /\ store = {} /\ pending = <<>> /\ ended = {}
    /\ previewStream = Stream({CameraTrack}, {MicTrack(1, TRUE)})

-----------------------------------------------------------------------------
(* Specification of processed video recordings: a non-native aspect is       *)
(* selected, so that startVideoRecording runs a VideoProcessor, and the      *)
(* recordings are stopped and saved                                          *)

ProcessedInit ==
    /\ ProcInit
    /\ GeomIdle
    /\ CountIdle
    /\ PrevIdle
    /\ FnIdle
    /\ GalIdle
    /\ previewStream \in {Stream({CameraTrack}, {}),
                          Stream({CameraTrack}, {MicTrack(1, TRUE)})}
    /\ aspectSel \in AspectOptions \ {"native"}
    /\ processedStream = Null
    /\ videoProcessor = 0
    /\ nextProc = 0
    /\ videoRecorderCtl = 0
    /\ recorders = <<>>
    /\ ui = [startHidden |-> FALSE, stopHidden |-> TRUE, timerHidden |-> TRUE,
             videoTimerOn |-> FALSE]
    /\ sh = [h \in StartIds |-> NoStart]
    /\ statusText = StatusCameraReady
    /\ audioRecorderCtl = 0
    /\ audioMeter = MeterAfterSetup(previewStream, "none")
    /\ meteringHidden = (audioMeter = Null)
    /\ audioUi = [startHidden |-> FALSE, stopHidden |-> TRUE, audioTimerOn |-> FALSE]
    /\ ah = [a \in StartIds |-> NoAudioStart]
    /\ stopping = NoStops

ProcessedNext ==
    \/ \E h \in StartIds : StartVideoRecording(h)
    \/ \E h \in StartIds : ResumeAfterProcessing(h)
    \/ \E h \in StartIds : WarmupTimer(h)
    \/ \E h \in StartIds : SliceTimer(h)
    \/ \E p \in ProcIds : ProcStep(p)
    \/ \E k \in {1} : StopVideoRecording(k)
    \/ \E kind \in {"video"}, k \in {1} : RecorderStopTimer(kind, k)
    \/ \E k \in {1} : VideoBlobResolves(k)
    \/ \E k \in {1} : VideoRetryTimer(k)
    \/ \E k \in {1} : VideoSaveSettles(k)
    \/ StatsSettles

SpecProcessed == ProcessedInit /\ [][ProcessedNext]_vars

\* the output tracks the startProcessing calls of processor p have made
OutputTracks(p) ==
    (IF proc[p].outputStream /= Null THEN getTracks(proc[p].outputStream) ELSE {})
        \cup (IF call[p].pc = "resolved" THEN getTracks(call[p].result) ELSE {})

\* C23: whenever no video recorder is recording and no start or stop handler
\* is running, no VideoProcessor is processing: isProcessing is false, no
\* frame callback is scheduled and no output track is live.
C23_ProcessorsStopped ==
    (~VideoHandlerRunning /\ ~SomeVideoRecording) =>
        \A p \in ProcIds :
            /\ ~proc[p].isProcessing
            /\ ~raf[p].cur
            /\ \A t \in OutputTracks(p) : ~Live(t)

-----------------------------------------------------------------------------
(* ui.js: startPreview, called when the page is loaded and by the change     *)
(* handlers of the settings while a preview stream is held                   *)

\* the stream getUserMedia gives invocation i: new tracks, with a microphone
\* track when #includeAudio is checked
AcquiredStream(i, withAudio) ==
    Stream({[CameraTrack EXCEPT !.id = i]},
           IF withAudio THEN {MicTrack(i, TRUE)} ELSE {})

\* mutant: only the video tracks of the stream are stopped
stopStreamVideoOnly(E, stream) ==
    IF stream = Null THEN E ELSE E \cup stream.video

\* part_002:23-28: stopStream(stream), as its effect on the set of stopped tracks
stopStream(E, stream) ==
    IF stream = Null THEN E ELSE E \cup getTracks(stream)

\* part_001:146-168: setupAudioMetering(stream): the meter and the 'hidden'
\* class of #meteringContainer it leaves
setupAudioMetering(hidden, stream, failAt) ==
    IF stream.audio = {}
    THEN [audioMeter |-> Null, meteringHidden |-> TRUE]
    ELSE LET meter == connect(NewAudioMeter, stream, failAt)
         IN  [audioMeter |-> meter,
              meteringHidden |-> IF meter.isActive THEN FALSE ELSE hidden]

\* part_001:195-199 and 605-632: startPreview is called, by initialize() or by
\* a change handler (these call it only while a preview stream is held), and
\* runs up to `await getCameraStream`
StartPreview(i) ==
    /\ ph[i].pc = "idle"
    /\ \A j \in PreviewIds : j < i => ph[j].pc /= "idle"
    /\ i = 1 \/ previewStream /= Null
    /\ statusText' = "Requesting camera"
    /\ ph' = [ph EXCEPT ![i].pc = "camera"]
    /\ UNCHANGED <<geomVars, countVars, fnVars, studioVars, procVars, galVars, recVars>>

\* part_001:199-207 and 224-228: getUserMedia settles.  On success the stream
\* held so far is stopped with its meter, the new one becomes the preview
\* stream and is attached to the video element; on failure the catch runs.
CameraSettles(i) ==
    /\ ph[i].pc = "camera"
    /\ \E ok, withAudio \in BOOLEAN :
          IF ok
          THEN LET stream == AcquiredStream(i, withAudio)
               IN  /\ ended' = stopStream(ended, previewStream)
                   /\ IF previewStream /= Null
                      THEN audioMeter' = Null /\ meteringHidden' = TRUE
                      ELSE UNCHANGED <<audioMeter, meteringHidden>>
                   /\ previewStream' = stream
                   /\ ph' = [ph EXCEPT ![i] = [pc |-> "attach", stream |-> stream]]
                   /\ UNCHANGED statusText
          ELSE /\ statusText' = StatusCameraFailed
               /\ ph' = [ph EXCEPT ![i].pc = "done"]
               /\ UNCHANGED <<ended, audioMeter, meteringHidden, previewStream>>
    /\ UNCHANGED <<geomVars, countVars, fnVars, galVars, proc, call, raf,
                   processedStream, videoProcessor, nextProc, videoRecorderCtl, recorders,
                   aspectSel, ui, sh, audioRecorderCtl, audioUi, ah, stopping>>

\* part_001:217-223: the tail of startPreview: setupAudioMetering on the
\* stream previewStream names now, and the status
PreviewReady(i, failAt) ==
    LET m == setupAudioMetering(meteringHidden, previewStream, failAt)
    IN  /\ audioMeter' = m.audioMeter
        /\ meteringHidden' = m.meteringHidden
        /\ statusText' = StatusCameraReady
        /\ ph' = [ph EXCEPT ![i].pc = "done"]

\* part_001:207-216: the play() promise of attachToVideo settles; the video
\* has its first frame already, or the handler waits for 'loadeddata'
AttachSettles(i) ==
    /\ ph[i].pc = "attach"
    /\ \E hasFrame \in BOOLEAN, failAt \in ConnectFailures :
          IF hasFrame
          THEN PreviewReady(i, failAt)
          ELSE /\ ph' = [ph EXCEPT ![i].pc = "loadeddata"]
               /\ UNCHANGED <<audioMeter, meteringHidden, statusText>>
    /\ UNCHANGED <<geomVars, countVars, fnVars, galVars, procVars, recVars,
                   audioRecorderCtl, audioUi, ah, stopping>>

\* part_001:211-223: the video element fires 'loadeddata'
LoadedData(i) ==
    /\ ph[i].pc = "loadeddata"
    /\ \E failAt \in ConnectFailures : PreviewReady(i, failAt)
    /\ UNCHANGED <<geomVars, countVars, fnVars, galVars, procVars, recVars,
                   audioRecorderCtl, audioUi, ah, stopping>>

\* the page as it is loaded, before initialize() calls startPreview
PreviewInit ==
    /\ ProcInit
    /\ GeomIdle
    /\ PageIdle
    /\ RecIdle
    /\ GalIdle

PreviewNext ==
    \/ \E i \in PreviewIds : StartPreview(i)
    \/ \E i \in PreviewIds : CameraSettles(i)
    \/ \E i \in PreviewIds : AttachSettles(i)
    \/ \E i \in PreviewIds : LoadedData(i)

SpecPreview == PreviewInit /\ [][PreviewNext]_vars

\* no invocation of startPreview is running
PreviewQuiescent == \A i \in PreviewIds : ph[i].pc \in {"idle", "done"}

\* the stream invocation i acquired has a live track
HoldsLiveStream(i) ==
    ph[i].stream /= Null /\ \E t \in getTracks(ph[i].stream) : Live(t)

\* C26: whenever no startPreview is running, at most one acquired camera
\* stream has a live track, and it is the preview stream; and in the step in
\* which a startPreview acquires its stream, that stream becomes the preview
\* stream and every track of the stream held before is stopped.
C26_OneLiveCameraStream ==
    /\ [](PreviewQuiescent =>
            /\ Cardinality({i \in PreviewIds : HoldsLiveStream(i)}) <= 1
            /\ \A i \in PreviewIds : HoldsLiveStream(i) => previewStream = ph[i].stream)
    /\ [][\A i \in PreviewIds :
             (ph[i].stream = Null /\ ph'[i].stream /= Null) =>
                 /\ previewStream' = ph'[i].stream
                 /\ previewStream /= Null =>
                        \A t \in getTracks(previewStream) : t \in ended']_vars

\* invocations 2 and 3 overlapped and invocation 3 acquired its stream first:
\* both have finished, the preview stream is the one of invocation 2, and the
\* streams of invocations 1 and 3, with microphone tracks, are stopped
C26_Witness ==
    /\ PreviewQuiescent
    /\ ph[2].stream /= Null /\ ph[3].stream /= Null
    /\ previewStream = ph[2].stream
    /\ ph[1].stream.audio /= {} /\ ph[3].stream.audio /= {}
    /\ getTracks(ph[1].stream) \cup getTracks(ph[3].stream) \subseteq ended

-----------------------------------------------------------------------------
(* utils.js: setAspect.  A string is a sequence of characters, so that       *)
(* split(':') and Number are computed as the code computes them.             *)

MAX_PREVIEW_HEIGHT == 512

\* Number(x) of a string that is not a number, and an array element that is
\* not there
NaN == -1
Undefined == -2

DigitValue ==
    [c \in {"0", "1", "2", "3", "4", "5", "6", "7", "8", "9"} |->
        CASE c = "0" -> 0 [] c = "1" -> 1 [] c = "2" -> 2 [] c = "3" -> 3 [] c = "4" -> 4
          [] c = "5" -> 5 [] c = "6" -> 6 [] c = "7" -> 7 [] c = "8" -> 8 [] c = "9" -> 9]

\* Number(str) for a string of digits and other characters: '' is 0
RECURSIVE Number(_)
Number(str) ==
    IF str = <<>>
    THEN 0
    ELSE IF \E i \in 1..Len(str) : str[i] \notin DOMAIN DigitValue
         THEN NaN
         ELSE 10 * Number(SubSeq(str, 1, Len(str) - 1)) + DigitValue[str[Len(str)]]

\* str.split(sep)
RECURSIVE Split(_, _)
Split(str, sep) ==
    IF \A i \in 1..Len(str) : str[i] /= sep
    THEN <<str>>
    ELSE LET k == CHOOSE i \in 1..Len(str) :
                     str[i] = sep /\ \A j \in 1..(i - 1) : str[j] /= sep
         IN  <<SubSeq(str, 1, k - 1)>> \o Split(SubSeq(str, k + 1, Len(str)), sep)

\* a value that `&&` and `!` take for true
Truthy(x) == x \notin {0, NaN, Undefined}

Min(a, b) == IF a <= b THEN a ELSE b

\* mutant: the container always takes the available width
AvailableWidthOnly(availableWidth, widthFromMaxH) == availableWidth

\* utils.js:42: Math.min(availableWidth, widthFromMaxH)
PreviewWidth(availableWidth, widthFromMaxH) == Min(availableWidth, widthFromMaxH)

Native == <<"n", "a", "t", "i", "v", "e">>

\* utils.js:11-48: the style setAspect leaves on the container.  video holds
\* videoWidth and videoHeight; availableWidth is parent.clientWidth (or
\* window.innerWidth).  No ratio is written [n |-> 0, d |-> 1].
setAspect(container, aspect, video, availableWidth) ==
    LET parts == [i \in 1..Len(Split(aspect, ":")) |-> Number(Split(aspect, ":")[i])]
        w == parts[1]
        h == IF Len(parts) >= 2 THEN parts[2] ELSE Undefined
        ratio == IF aspect = <<>> \/ aspect = Native
                 THEN IF Truthy(video.videoWidth) /\ Truthy(video.videoHeight)
                      THEN RDiv(RInt(video.videoWidth), RInt(video.videoHeight))
                      ELSE RDiv(RInt(16), RInt(9))
                 ELSE IF Truthy(w) /\ Truthy(h)
                      THEN RDiv(RInt(w), RInt(h))
                      ELSE RInt(0)
    IN  IF ratio = RInt(0)
        THEN container
        ELSE LET widthFromMaxH == RRound(RMul(RInt(MAX_PREVIEW_HEIGHT), ratio))
                 width == PreviewWidth(availableWidth, widthFromMaxH)
                 height == Min(MAX_PREVIEW_HEIGHT, RRound(RDiv(RInt(width), ratio)))
             IN  [sized |-> TRUE, width |-> width, height |-> height]

\* the #previewContainer before setAspect has sized it
Unsized == [sized |-> FALSE, width |-> 0, height |-> 0]

\* the aspect strings under study, each with the two numbers it stands for
\* (0, 0 when it does not stand for two non-zero numbers)
AspectInputs ==
    {[text |-> Native, w |-> 0, h |-> 0],
     [text |-> <<>>, w |-> 0, h |-> 0],
     [text |-> <<"1", "6", ":", "9">>, w |-> 16, h |-> 9],
     [text |-> <<"9", ":", "1", "6">>, w |-> 9, h |-> 16],
     [text |-> <<"4", ":", "3">>, w |-> 4, h |-> 3],
     [text |-> <<"1", ":", "1">>, w |-> 1, h |-> 1],
     [text |-> <<"3", ":", "1", "0">>, w |-> 3, h |-> 10],
     [text |-> <<"1", "6", ":", "9", ":", "4">>, w |-> 16, h |-> 9],
     [text |-> <<"1", "6", ":", "0">>, w |-> 0, h |-> 0],
     [text |-> <<"0", ":", "9">>, w |-> 0, h |-> 0],
     [text |-> <<"1", "6">>, w |-> 0, h |-> 0],
     [text |-> <<"1", "6", ":">>, w |-> 0, h |-> 0],
     [text |-> <<":">>, w |-> 0, h |-> 0],
     [text |-> <<"x", ":", "9">>, w |-> 0, h |-> 0],
     [text |-> <<"1", "6", "x", "9">>, w |-> 0, h |-> 0]}

\* videoWidth / videoHeight (0 before the metadata is there) and the widths
\* of the parent element
VideoSizes == {0, 3, 10, 480, 640, 1080, 1920}
ParentWidths == {0, 1, 320, 910, 911, 1280}

AspectInit ==
    /\ ProcInit
    /\ GeomIdle
    /\ RecIdle
    /\ GalIdle
    /\ CountIdle
    /\ PrevIdle
    /\ StudioIdle
    /\ args \in [fn : {"setAspect"}, aspect : AspectInputs,
                 video : [videoWidth : VideoSizes, videoHeight : VideoSizes],
                 availableWidth : ParentWidths,
                 container : {Unsized, [sized |-> TRUE, width |-> 320, height |-> 240]}]
    /\ result = NoResult

CallSetAspect ==
    /\ result = NoResult
    /\ args.fn = "setAspect"
    /\ result' = [container |-> setAspect(args.container, args.aspect.text, args.video,
                                          args.availableWidth)]
    /\ UNCHANGED args
    /\ UNCHANGED <<geomVars, procVars, recVars, statusText, galVars, countVars, studioVars, prevVars>>

AspectNext == CallSetAspect

SpecAspect == AspectInit /\ [][AspectNext]_vars

\* the two numbers of the ratio the call selects, <<0, 0>> when there is none
SelectedRatio ==
    IF args.aspect.text \in {Native, <<>>}
    THEN IF args.video.videoWidth > 0 /\ args.video.videoHeight > 0
         THEN <<args.video.videoWidth, args.video.videoHeight>>
         ELSE <<16, 9>>
    ELSE <<args.aspect.w, args.aspect.h>>

\* C17: setAspect leaves a height of at most 512 px and a width of at most the
\* available width with width / height equal to the selected ratio up to the
\* rounding of one of the two (the native ratio is videoWidth / videoHeight,
\* or 16:9 without dimensions); an aspect string that does not stand for two
\* non-zero numbers leaves the size of the container as it was.
C17_PreviewSize ==
    (args /= Null /\ args.fn = "setAspect" /\ result /= NoResult) =>
        LET w == SelectedRatio[1]
            h == SelectedRatio[2]
            c == result.container
        IN  IF w = 0 \/ h = 0
            THEN c = args.container
            ELSE /\ c.sized
                 /\ c.height <= 512
                 /\ c.width <= args.availableWidth
                 /\ \/ 2 * Abs(c.height * w - c.width * h) <= w
                    \/ c.height = 512 /\ 2 * Abs(c.width * h - 512 * w) <= h

\* a 16:9 preview limited by the width of its parent, and one limited by the
\* maximal height
C17_Witness ==
    /\ args /= Null /\ args.fn = "setAspect" /\ result /= NoResult
    /\ args.aspect.text = <<"1", "6", ":", "9">>
    /\ args.availableWidth = 320
    /\ result.container = [sized |-> TRUE, width |-> 320, height |-> 180]

C17_WitnessUnparsed ==
    /\ args /= Null /\ args.fn = "setAspect" /\ result /= NoResult
    /\ args.aspect.text = <<"1", "6", ":", "0">>
    /\ args.container.sized
    /\ result.container = args.container

-----------------------------------------------------------------------------
(* recorder.js: pickMimeType *)

\* part_002:246-253
VideoCandidatesWithAudio ==
    <<"video/webm;codecs=vp8,opus", "video/webm;codecs=vp9,opus",
      "video/webm;codecs=vp8", "video/webm;codecs=vp9", "video/webm",
      "video/mp4;codecs=avc1.42E01E,mp4a.40.2", "video/mp4">>
\* part_002:255-261
VideoCandidatesSilent ==
    <<"video/webm;codecs=vp8", "video/webm;codecs=vp9", "video/webm",
      "video/mp4;codecs=avc1.42E01E", "video/mp4">>
\* part_002:262-266
AudioCandidates ==
    <<"audio/webm;codecs=opus", "audio/webm", "audio/ogg;codecs=opus">>

Range(f) == {f[i] : i \in DOMAIN f}
MimeTypes ==
    Range(VideoCandidatesWithAudio) \cup Range(VideoCandidatesSilent)
        \cup Range(AudioCandidates)

\* mutant: the candidates with an audio codec are offered to every video stream
VideoCandidatesAlwaysWithAudio(hasAudio) == VideoCandidatesWithAudio

\* part_002:245-261
VideoCandidates(hasAudio) ==
    IF hasAudio THEN VideoCandidatesWithAudio ELSE VideoCandidatesSilent

\* part_002:241-268: the list pickMimeType walks
Candidates(stream) ==
    LET hasVideo == stream.video /= {}
        hasAudio == stream.audio /= {}
    IN  IF hasVideo THEN VideoCandidates(hasAudio) ELSE AudioCandidates

\* part_002:269-276: the loop over the candidates; supported is the set of
\* types MediaRecorder.isTypeSupported accepts
RECURSIVE FirstSupported(_, _)
FirstSupported(candidates, supported) ==
    IF candidates = <<>>
    THEN ""
    ELSE IF Head(candidates) \in supported
         THEN Head(candidates)
         ELSE FirstSupported(Tail(candidates), supported)

\* part_002:240-277
pickMimeType(stream, supported) == FirstSupported(Candidates(stream), supported)

\* the streams createRecorder can be given: with or without a video track and
\* with or without an audio track
RecordedStreams ==
    {Stream(v, a) : v \in {{}, {CameraTrack}}, a \in {{}, {MicTrack(1, TRUE)}}}

MimeInit ==
    /\ ProcInit
    /\ GeomIdle
    /\ RecIdle
    /\ GalIdle
    /\ CountIdle
    /\ PrevIdle
    /\ StudioIdle
    /\ args \in [fn : {"pickMimeType"}, stream : RecordedStreams,
                 supported : SUBSET MimeTypes]
    /\ result = NoResult

CallPickMimeType ==
    /\ result = NoResult
    /\ args.fn = "pickMimeType"
    /\ result' = [type |-> pickMimeType(args.stream, args.supported)]
    /\ UNCHANGED args
    /\ UNCHANGED <<geomVars, procVars, recVars, statusText, galVars, countVars, studioVars, prevVars>>

MimeNext == CallPickMimeType

SpecMime == MimeInit /\ [][MimeNext]_vars

\* the types whose container is video/..., and the types that name an audio
\* codec (opus, mp4a)
VideoContainers ==
    {"video/webm;codecs=vp8,opus", "video/webm;codecs=vp9,opus", "video/webm;codecs=vp8",
     "video/webm;codecs=vp9", "video/webm", "video/mp4;codecs=avc1.42E01E,mp4a.40.2",
     "video/mp4;codecs=avc1.42E01E", "video/mp4"}
NamesAudioCodec ==
    {"video/webm;codecs=vp8,opus", "video/webm;codecs=vp9,opus",
     "video/mp4;codecs=avc1.42E01E,mp4a.40.2", "audio/webm;codecs=opus",
     "audio/ogg;codecs=opus"}

MimeDone == args /= Null /\ args.fn = "pickMimeType" /\ result /= NoResult

\* the call returned the first candidate of its list that is supported, or ''
ReturnsFirstSupported ==
    LET c == Candidates(args.stream)
    IN  \/ /\ result.type = ""
           /\ \A i \in DOMAIN c : c[i] \notin args.supported
        \/ \E i \in DOMAIN c :
              /\ c[i] = result.type
              /\ c[i] \in args.supported
              /\ \A j \in 1..(i - 1) : c[j] \notin args.supported

\* video containers are candidates only with a video track, audio containers
\* only without one
ContainerFollowsVideoTrack ==
    LET c == Candidates(args.stream)
    IN  \A i \in DOMAIN c : (c[i] \in VideoContainers) <=> (args.stream.video /= {})

-----------------------------------------------------------------------------
(* ui.js: getOutputDimensions on the texts of #aspectSelect and              *)
(* #resolutionSelect, so that split and Number are computed                  *)

\* mutant: the comparison with the base ratio is reversed
IsWiderReversed(aspectRatio, baseWidth, baseHeight) ==
    RLt(aspectRatio, RDiv(RInt(baseWidth), RInt(baseHeight)))

\* part_001:107: aspectRatio > (baseWidth / baseHeight)
IsWider(aspectRatio, baseWidth, baseHeight) ==
    RLt(RDiv(RInt(baseWidth), RInt(baseHeight)), aspectRatio)

\* part_001:93-118, with the values of the two select elements as arguments
OutputDimensions(aspectValue, resolutionValue) ==
    LET aspect == IF aspectValue = <<>> THEN Native ELSE aspectValue
        base == [i \in 1..Len(Split(resolutionValue, ",")) |->
                    Number(Split(resolutionValue, ",")[i])]
        baseWidth == base[1]
        baseHeight == base[2]
    IN  IF aspect = Native
        THEN [width |-> baseWidth, height |-> baseHeight]
        ELSE LET parts == [i \in 1..Len(Split(aspect, ":")) |->
                              Number(Split(aspect, ":")[i])]
                 aspectRatio == RDiv(RInt(parts[1]), RInt(parts[2]))
             IN  IF IsWider(aspectRatio, baseWidth, baseHeight)
                 THEN [width |-> baseWidth,
                       height |-> RRound(RDiv(RInt(baseWidth), aspectRatio))]
                 ELSE [width |-> RRound(RMul(RInt(baseHeight), aspectRatio)),
                       height |-> baseHeight]

\* values of #aspectSelect, each with the two numbers it stands for (0, 0 for
\* 'native' and for no value)
DimAspects ==
    {[text |-> Native, w |-> 0, h |-> 0],
     [text |-> <<>>, w |-> 0, h |-> 0],
     [text |-> <<"1", "6", ":", "9">>, w |-> 16, h |-> 9],
     [text |-> <<"9", ":", "1", "6">>, w |-> 9, h |-> 16],
     [text |-> <<"4", ":", "3">>, w |-> 4, h |-> 3],
     [text |-> <<"3", ":", "4">>, w |-> 3, h |-> 4],
     [text |-> <<"1", ":", "1">>, w |-> 1, h |-> 1],
     [text |-> <<"2", "1", ":", "9">>, w |-> 21, h |-> 9],
     [text |-> <<"2", ":", "1">>, w |-> 2, h |-> 1],
     [text |-> <<"3", ":", "1", "0">>, w |-> 3, h |-> 10]}

\* values of #resolutionSelect, each with the two numbers it stands for
DimResolutions ==
    {[text |-> <<"3", "8", "4", "0", ",", "2", "1", "6", "0">>, bw |-> 3840, bh |-> 2160],
     [text |-> <<"1", "9", "2", "0", ",", "1", "0", "8", "0">>, bw |-> 1920, bh |-> 1080],
     [text |-> <<"1", "2", "8", "0", ",", "7", "2", "0">>, bw |-> 1280, bh |-> 720],
     [text |-> <<"6", "4", "0", ",", "4", "8", "0">>, bw |-> 640, bh |-> 480],
     [text |-> <<"6", "4", "0", ",", "3", "6", "0">>, bw |-> 640, bh |-> 360],
     [text |-> <<"3", "2", "0", ",", "2", "4", "0">>, bw |-> 320, bh |-> 240],
     [text |-> <<"1", "0", "8", "0", ",", "1", "9", "2", "0">>, bw |-> 1080, bh |-> 1920],
     [text |-> <<"7", ",", "5">>, bw |-> 7, bh |-> 5]}

DimsInit ==
    /\ ProcInit
    /\ GeomIdle
    /\ RecIdle
    /\ GalIdle
    /\ CountIdle
    /\ PrevIdle
    /\ StudioIdle
    /\ args \in [fn : {"getOutputDimensions"}, aspect : DimAspects,
                 resolution : DimResolutions]
    /\ result = NoResult

CallGetOutputDimensions ==
    /\ result = NoResult
    /\ args.fn = "getOutputDimensions"
    /\ result' = OutputDimensions(args.aspect.text, args.resolution.text)
    /\ UNCHANGED args
    /\ UNCHANGED <<geomVars, procVars, recVars, statusText, galVars, countVars, studioVars, prevVars>>

DimsNext == CallGetOutputDimensions

SpecDims == DimsInit /\ [][DimsNext]_vars

\* C29: for a non-native aspect W:H and a base resolution (bw, bh) the result
\* fits inside the base resolution, keeps the width bw when W/H is wider than
\* bw/bh and the height bh otherwise, and its other dimension is the nearest
\* integer to the value that gives the ratio W:H; for 'native' it is (bw, bh).
C29_OutputDimensions ==
    (args /= Null /\ args.fn = "getOutputDimensions" /\ result /= NoResult) =>
        LET W == args.aspect.w
            H == args.aspect.h
            bw == args.resolution.bw
            bh == args.resolution.bh
        IN  IF W = 0
            THEN result = [width |-> bw, height |-> bh]
            ELSE /\ result.width <= bw
                 /\ result.height <= bh
                 /\ IF W * bh > bw * H
                    THEN /\ result.width = bw
                         /\ 2 * Abs(result.height * W - bw * H) <= W
                    ELSE /\ result.height = bh
                         /\ 2 * Abs(result.width * H - bh * W) <= H

\* 9:16 at 1920x1080: the height is kept and the width 607.5 is rounded to 608
C29_Witness ==
    /\ args /= Null /\ args.fn = "getOutputDimensions"
    /\ args.aspect.w = 9 /\ args.aspect.h = 16
    /\ args.resolution.bw = 1920 /\ args.resolution.bh = 1080
    /\ result = [width |-> 608, height |-> 1080]

\* 21:9 at 1920x1080: the width is kept and the height 822.857... is rounded to 823
C29_WitnessWider ==
    /\ args /= Null /\ args.fn = "getOutputDimensions"
    /\ args.aspect.w = 21 /\ args.aspect.h = 9
    /\ args.resolution.bw = 1920 /\ args.resolution.bh = 1080
    /\ result = [width |-> 1920, height |-> 823]

-----------------------------------------------------------------------------
(* VideoProcessor.startProcessing: the frame rate given to captureStream     *)

\* largest requested frame rate tried
MaxFps == 70

\* JavaScript values an fps option can have: undefined (no such option), NaN,
\* the two infinities and finite numbers, here exact rationals
JsUndefined == [t |-> "undefined", v |-> RInt(0)]
JsNaN == [t |-> "NaN", v |-> RInt(0)]
JsInfinity == [t |-> "Infinity", v |-> RInt(0)]
JsNegInfinity == [t |-> "-Infinity", v |-> RInt(0)]
JsNum(r) == [t |-> "number", v |-> r]

\* a <= b for two values that are not NaN
JsLe(a, b) ==
    \/ a.t = "-Infinity"
    \/ b.t = "Infinity"
    \/ a.t = "number" /\ b.t = "number" /\ RLe(a.v, b.v)

\* Math.max and Math.min of two numbers: NaN when one of them is NaN
MathMax(a, b) ==
    IF a = JsNaN \/ b = JsNaN THEN JsNaN
    ELSE IF JsLe(a, b) THEN b ELSE a

MathMin(a, b) ==
    IF a = JsNaN \/ b = JsNaN THEN JsNaN
    ELSE IF JsLe(a, b) THEN a ELSE b

\* mutant: only a missing value counts as false (`??` in place of `||`)
JsDefined(x) == x /= JsUndefined

\* a value that `||` takes for true
JsTruthy(x) == x \notin {JsUndefined, JsNaN, JsNum(RInt(0))}

\* part_000:27 and :89: `fps = 30` in the destructuring, then
\* Math.min(Math.max(1, fps || 30), 60)
safeFps(optionsFps) ==
    LET fps == IF optionsFps = JsUndefined THEN JsNum(RInt(30)) ELSE optionsFps
    IN  MathMin(MathMax(JsNum(RInt(1)),
                        IF JsTruthy(fps) THEN fps ELSE JsNum(RInt(30))),
                JsNum(RInt(60)))

\* values of options.fps: none, NaN, the infinities, and every half from
\* -MaxFps / 2 to MaxFps
FpsInputs ==
    {JsUndefined, JsNaN, JsInfinity, JsNegInfinity}
        \cup {JsNum(Rat(n, 2)) : n \in -MaxFps..(2 * MaxFps)}

FpsInit ==
    /\ ProcInit
    /\ GeomIdle
    /\ RecIdle
    /\ GalIdle
    /\ CountIdle
    /\ PrevIdle
    /\ StudioIdle
    /\ args \in [fn : {"captureStream"}, fps : FpsInputs]
    /\ result = NoResult

\* the argument of this.canvas.captureStream(safeFps)
CallCaptureStream ==
    /\ result = NoResult
    /\ args.fn = "captureStream"
    /\ result' = safeFps(args.fps)
    /\ UNCHANGED args
    /\ UNCHANGED <<geomVars, procVars, recVars, statusText, galVars, countVars, studioVars, prevVars>>

FpsNext == CallCaptureStream

SpecFps == FpsInit /\ [][FpsNext]_vars

\* C30: the frame rate passed to canvas.captureStream is a number from 1 to
\* 60: the requested fps itself when it is in that range, 1 when it is below
\* (and not zero), 60 when it is above, and 30 when the fps is missing, zero or
\* NaN.
C30_SafeFps ==
    (args /= Null /\ args.fn = "captureStream" /\ result /= NoResult) =>
        LET fps == args.fps
            one == JsNum(RInt(1))
            sixty == JsNum(RInt(60))
        IN  /\ result.t = "number"
            /\ RLe(RInt(1), result.v) /\ RLe(result.v, RInt(60))
            /\ fps \in {JsUndefined, JsNaN, JsNum(RInt(0))} => result = JsNum(RInt(30))
            /\ fps \notin {JsUndefined, JsNaN, JsNum(RInt(0))} =>
                  result = IF JsLe(fps, one) THEN one
                           ELSE IF JsLe(sixty, fps) THEN sixty
                           ELSE fps

\* a NaN fps, as parseInt gives for a text that is no number, became 30
C30_Witness ==
    /\ args /= Null /\ args.fn = "captureStream"
    /\ args.fps = JsNaN
    /\ result = JsNum(RInt(30))

\* a requested 65 was clamped to 60, and a requested 1/2 to 1
C30_WitnessAbove ==
    /\ args /= Null /\ args.fn = "captureStream"
    /\ args.fps = JsNum(RInt(65))
    /\ result = JsNum(RInt(60))

C30_WitnessBelow ==
    /\ args /= Null /\ args.fn = "captureStream"
    /\ args.fps = JsNum(Rat(1, 2))
    /\ result = JsNum(RInt(1))

-----------------------------------------------------------------------------
(* camera.js: capturePhoto.  The environment of a call is a record of what   *)
(* the browser offers and of which step fails:                               *)
(*   hasTrack        video.srcObject is a MediaStream with a video track     *)
(*   hasImageCapture 'ImageCapture' in window                                *)
(*   constructs      new ImageCapture(track) does not throw                  *)
(*   hasTakePhoto    ic.takePhoto is there                                   *)
(*   takePhotoOk     ic.takePhoto() resolves                                 *)
(*   grabFrameOk     ic.grabFrame() resolves                                 *)
(*   toPngOk         bitmapToPngBlob(bitmap) resolves                        *)
(*   canvasOk        canvasGrab(video) resolves                              *)

CaptureEnvs ==
    [hasTrack : BOOLEAN, hasImageCapture : BOOLEAN, constructs : BOOLEAN,
     hasTakePhoto : BOOLEAN, takePhotoOk : BOOLEAN, grabFrameOk : BOOLEAN,
     toPngOk : BOOLEAN, canvasOk : BOOLEAN]

\* part_002:62 and 102-110: return canvasGrab(video)
canvasGrab(env) ==
    [settled |-> IF env.canvasOk THEN "resolved" ELSE "rejected", by |-> "canvas"]

\* part_002:46-63.  `return await ic.takePhoto()` and `await ic.grabFrame()`
\* are awaited inside the try, so their rejections reach the catch; the
\* promise of bitmapToPngBlob is returned without an await, so the call
\* settles as that promise does.
capturePhoto(env) ==
    IF env.hasTrack /\ env.hasImageCapture
    THEN IF ~env.constructs
         THEN canvasGrab(env)
         ELSE IF env.hasTakePhoto
              THEN IF env.takePhotoOk
                   THEN [settled |-> "resolved", by |-> "takePhoto"]
                   ELSE canvasGrab(env)
              ELSE IF env.grabFrameOk
                   THEN [settled |-> IF env.toPngOk THEN "resolved" ELSE "rejected",
                         by |-> "grabFrame"]
                   ELSE canvasGrab(env)
    ELSE canvasGrab(env)

CaptureInit ==
    /\ ProcInit
    /\ GeomIdle
    /\ RecIdle
    /\ GalIdle
    /\ CountIdle
    /\ PrevIdle
    /\ StudioIdle
    /\ args \in [fn : {"capturePhoto"}, env : CaptureEnvs]
    /\ result = NoResult

CallCapturePhoto ==
    /\ result = NoResult
    /\ args.fn = "capturePhoto"
    /\ result' = capturePhoto(args.env)
    /\ UNCHANGED args
    /\ UNCHANGED <<geomVars, procVars, recVars, statusText, galVars, countVars, studioVars, prevVars>>

CaptureNext == CallCapturePhoto

SpecCapture == CaptureInit /\ [][CaptureNext]_vars

\* the ImageCapture path is open, and a step of it failed
ImageCaptureUsable == args.env.hasTrack /\ args.env.hasImageCapture
ImageCaptureStepFailed ==
    \/ ~args.env.constructs
    \/ args.env.hasTakePhoto /\ ~args.env.takePhotoOk
    \/ ~args.env.hasTakePhoto /\ (~args.env.grabFrameOk \/ ~args.env.toPngOk)

\* C19: capturePhoto uses takePhoto when ImageCapture exists and the video has
\* a track, grabFrame when takePhoto is not available, and the canvas whenever
\* ImageCapture is unavailable, there is no track, or a step of the
\* ImageCapture path fails; it rejects only when the canvas fallback fails.
C19_FallsBackToCanvas ==
    (args /= Null /\ args.fn = "capturePhoto" /\ result /= NoResult) =>
        /\ (ImageCaptureUsable /\ ~ImageCaptureStepFailed) =>
              /\ result.settled = "resolved"
              /\ result.by = IF args.env.hasTakePhoto THEN "takePhoto" ELSE "grabFrame"
        /\ (~ImageCaptureUsable \/ ImageCaptureStepFailed) => result.by = "canvas"
        /\ result.settled = "rejected" => (result.by = "canvas" /\ ~args.env.canvasOk)

-----------------------------------------------------------------------------
(* metering.js: AudioMeter.getLevel.  One AudioMeter is driven through its   *)
(* public methods.  A level is written as its square, a rational, so that    *)
(* Math.sqrt needs no approximation: the square of (rms / 255) * 100 is      *)
(* (sum / length) * 10000 / 65025, and Math.min(100, x) is the smaller of    *)
(* the squares.                                                              *)

\* the bytes getByteFrequencyData can write
ByteSamples == {0, 64, 128, 255}

RECURSIVE SumOfSquares(_)
SumOfSquares(data) ==
    IF data = <<>> THEN 0 ELSE Head(data) * Head(data) + SumOfSquares(Tail(data))

\* metering.js:42-54: the square of the value getLevel returns
getLevel(m, data) ==
    IF ~m.isActive \/ ~m.analyser \/ ~m.dataArray
    THEN RInt(0)
    ELSE LET meanSquare == RDiv(RInt(SumOfSquares(data)), RInt(Len(data)))
             levelSquare == RDiv(RMul(meanSquare, RInt(10000)), RInt(255 * 255))
         IN  IF RLt(RInt(100 * 100), levelSquare) THEN RInt(100 * 100) ELSE levelSquare

\* the streams a meter is connected to: without and with an audio track
MeterStreams ==
    {Stream({CameraTrack}, {}), Stream({CameraTrack}, {MicTrack(1, TRUE)}),
     Stream({}, {MicTrack(1, TRUE)})}

\* new AudioMeter() without a stream; args.live records whether a connect
\* succeeded since the construction or the last disconnect
MeterInit ==
    /\ ProcInit
    /\ GeomIdle
    /\ RecIdle
    /\ GalIdle
    /\ CountIdle
    /\ PrevIdle
    /\ audioRecorderCtl = 0
    /\ audioMeter = NewAudioMeter
    /\ meteringHidden = TRUE
    /\ audioUi = [startHidden |-> FALSE, stopHidden |-> TRUE, audioTimerOn |-> FALSE]
    /\ ah = [a \in StartIds |-> NoAudioStart]
    /\ stopping = NoStops
    /\ args = [fn |-> "getLevel", live |-> FALSE]
    /\ result = NoResult

\* connect(stream) is called (by the constructor or by a user of the class)
MeterConnect ==
    /\ \E stream \in MeterStreams, failAt \in ConnectFailures :
          /\ audioMeter' = connect(audioMeter, stream, failAt)
          /\ args' = [args EXCEPT !.live = @ \/ (stream.audio /= {} /\ failAt = "none")]
    /\ UNCHANGED result
    /\ UNCHANGED <<geomVars, procVars, recVars, statusText, galVars, countVars, prevVars,
                   audioRecorderCtl, meteringHidden, audioUi, ah, stopping>>

MeterDisconnect ==
    /\ audioMeter' = disconnect(audioMeter)
    /\ args' = [args EXCEPT !.live = FALSE]
    /\ UNCHANGED result
    /\ UNCHANGED <<geomVars, procVars, recVars, statusText, galVars, countVars, prevVars,
                   audioRecorderCtl, meteringHidden, audioUi, ah, stopping>>

\* getLevel() is called; data is what the analyser has to write into dataArray
MeterGetLevel ==
    /\ \E data \in [1..BinCount -> ByteSamples] :
          result' = [levelSquare |-> getLevel(audioMeter, data), live |-> args.live,
                     data |-> data]
    /\ UNCHANGED <<args, audioMeter>>
    /\ UNCHANGED <<geomVars, procVars, recVars, statusText, galVars, countVars, prevVars,
                   audioRecorderCtl, meteringHidden, audioUi, ah, stopping>>

MeterNext ==
    \/ MeterConnect
    \/ MeterDisconnect
    \/ MeterGetLevel

SpecMeter == MeterInit /\ [][MeterNext]_vars

\* C20: getLevel returns a value in [0, 100], and 0 whenever the meter is not
\* active: no connect succeeded since it was constructed or disconnected (it
\* was never connected, the connect failed, or the stream had no audio track).
C20_LevelInRange ==
    (args /= Null /\ args.fn = "getLevel" /\ result /= NoResult) =>
        /\ RLe(RInt(0), result.levelSquare)
        /\ RLe(result.levelSquare, RInt(100 * 100))
        /\ ~result.live => result.levelSquare = RInt(0)

\* after a disconnect, and a connect to a stream without an audio track, the
\* level read was 0 although the analyser data would not be
C20_Witness ==
    /\ args /= Null /\ args.fn = "getLevel" /\ result /= NoResult
    /\ ~result.live
    /\ result.levelSquare = RInt(0)
    /\ audioMeter = NewAudioMeter
    /\ ~args.live

\* a connected meter read the loudest level
C20_WitnessLoud ==
    /\ args /= Null /\ args.fn = "getLevel" /\ result /= NoResult
    /\ result.live
    /\ result.levelSquare = RInt(100 * 100)

-----------------------------------------------------------------------------
(* Specification of the geometry function: the arguments are drawn at Init,  *)
(* the one action applies the function.                                      *)

GeomInit ==
    /\ geomIn \in [inputW : 1..MaxDim, inputH : 1..MaxDim,
                   outputW : 1..MaxDim, outputH : 1..MaxDim, fitMode : FitModes]
    /\ geomOut = NoResult
    /\ ProcInit
    /\ PageIdle
    /\ RecIdle
    /\ GalIdle

CallCropResize ==
    /\ geomOut = NoResult
    /\ geomOut' = calculateCropResize(geomIn.inputW, geomIn.inputH,
                                      geomIn.outputW, geomIn.outputH, geomIn.fitMode)
    /\ UNCHANGED geomIn
    /\ UNCHANGED <<procVars, recVars, statusText, galVars, pageVars>>

GeomNext == CallCropResize

SpecGeom == GeomInit /\ [][GeomNext]_vars

-----------------------------------------------------------------------------
(* Claims about calculateCropResize *)

GeomDone == geomOut /= NoResult

\* C2: for fitMode 'cover' the destination is the whole canvas and the source
\* rectangle lies inside the input frame, is centred, has the output's aspect
\* ratio and spans the full input width or the full input height.
C2_CoverGeometry ==
    (GeomDone /\ geomIn.fitMode = "cover") =>
        LET r == geomOut
            inW == RInt(geomIn.inputW)   inH == RInt(geomIn.inputH)
            outW == RInt(geomIn.outputW) outH == RInt(geomIn.outputH)
        IN  /\ r.destX = RInt(0) /\ r.destY = RInt(0)
            /\ r.destW = outW /\ r.destH = outH
            /\ RLe(RInt(0), r.srcX) /\ RLe(RInt(0), r.srcY)
            /\ RLt(RInt(0), r.srcW) /\ RLt(RInt(0), r.srcH)
            /\ RLe(RAdd(r.srcX, r.srcW), inW)
            /\ RLe(RAdd(r.srcY, r.srcH), inH)
            /\ RAdd(RAdd(r.srcX, r.srcX), r.srcW) = inW
            /\ RAdd(RAdd(r.srcY, r.srcY), r.srcH) = inH
            /\ RMul(r.srcW, outH) = RMul(r.srcH, outW)
            /\ (r.srcW = inW \/ r.srcH = inH)

\* a cover call that really crops (input wider than the output)
C2_Witness ==
    /\ GeomDone /\ geomIn.fitMode = "cover"
    /\ geomOut.srcW /= RInt(geomIn.inputW)
    /\ geomOut.srcX /= RInt(0)

\* C3: for fitMode 'contain' the source is the whole input frame and the
\* destination rectangle lies inside the canvas, is centred, has the input's
\* aspect ratio and spans the full output width or the full output height.
C3_ContainGeometry ==
    (GeomDone /\ geomIn.fitMode = "contain") =>
        LET r == geomOut
            inW == RInt(geomIn.inputW)   inH == RInt(geomIn.inputH)
            outW == RInt(geomIn.outputW) outH == RInt(geomIn.outputH)
        IN  /\ r.srcX = RInt(0) /\ r.srcY = RInt(0)
            /\ r.srcW = inW /\ r.srcH = inH
            /\ RLe(RInt(0), r.destX) /\ RLe(RInt(0), r.destY)
            /\ RLt(RInt(0), r.destW) /\ RLt(RInt(0), r.destH)
            /\ RLe(RAdd(r.destX, r.destW), outW)
            /\ RLe(RAdd(r.destY, r.destH), outH)
            /\ RAdd(RAdd(r.destX, r.destX), r.destW) = outW
            /\ RAdd(RAdd(r.destY, r.destY), r.destH) = outH
            /\ RMul(r.destW, inH) = RMul(r.destH, inW)
            /\ (r.destW = outW \/ r.destH = outH)

\* a contain call that really letterboxes (bars above and below)
C3_Witness ==
    /\ GeomDone /\ geomIn.fitMode = "contain"
    /\ geomOut.destH /= RInt(geomIn.outputH)
    /\ geomOut.destY /= RInt(0)

\* C4: 'fill', and every fitMode other than 'contain' and 'cover', maps the
\* full input frame onto the full canvas.
C4_FillGeometry ==
    (GeomDone /\ geomIn.fitMode \notin {"contain", "cover"}) =>
        /\ geomOut.srcX = RInt(0) /\ geomOut.srcY = RInt(0)
        /\ geomOut.srcW = RInt(geomIn.inputW) /\ geomOut.srcH = RInt(geomIn.inputH)
        /\ geomOut.destX = RInt(0) /\ geomOut.destY = RInt(0)
        /\ geomOut.destW = RInt(geomIn.outputW) /\ geomOut.destH = RInt(geomIn.outputH)

\* a fill call whose input and output aspect ratios differ (a distorting stretch)
C4_Witness ==
    /\ GeomDone /\ geomIn.fitMode = "fill"
    /\ geomIn.inputW * geomIn.outputH /= geomIn.outputW * geomIn.inputH

====
